---- MODULE Spec2Model ----
(***************************************************************************)
(* The Skip Enabled Concurrent Channel of src/src/secc.rs.                 *)
(*                                                                         *)
(* The channel is a fixed vector of capacity + 2 nodes threaded into two   *)
(* singly linked lists, the queue and the pool.  Every statement of send,  *)
(* receive, skip and reset_skip that touches memory another thread can     *)
(* see (a node's next, a node's cell, a statistics counter, a mutex) is    *)
(* one step of the calling thread; the statements that only touch the      *)
(* pointers guarded by the mutex the thread holds ride with the            *)
(* neighbouring step.                                                      *)
(***************************************************************************)
EXTENDS Integers, Sequences, FiniteSets, TLC

\* const NIL_NODE: usize = 1 << 16
NIL_NODE == 65536

\* Largest capacity handed to create().
MaxCapacity == 3
\* Successful sends of the single thread of Spec.
MaxSeqSends == 5

VARIABLES
    capacity,           \* SeccCore.capacity
    next,               \* SeccNode.next of every node
    cell,               \* SeccNode.cell of every node: <<>> is None, <<m>> is Some(m)
    queue_tail,         \* SeccSendPtrs
    pool_head,
    queue_head,         \* SeccReceivePtrs
    pool_tail,
    skipped,
    cursor,
    pending,            \* statistics
    receivable,
    sent,
    received,
    awaited_messages,
    awaited_capacity,
    send_mutex,         \* holder of send_ptrs' mutex, 0 when unlocked
    receive_mutex,      \* holder of receive_ptrs' mutex, 0 when unlocked
    notified,           \* the threads blocked in a Condvar wait that have been notified
    pc,                 \* where each thread stands
    op,                 \* the operation each thread is in
    message,            \* each thread's message: <<>> or <<m>>
    local,              \* each thread's other local variables
    res,                \* the result of each thread's last operation
    seq,                \* successful sends of each thread so far
    hidden,             \* the two sequences of the reference model
    visible,
    ares,               \* the reference model's result of the last operation
    pre,                \* the channel as it was when the last operation was called
    sendLog,            \* the messages of the sends that found a free node, in the order
                        \* in which they entered the critical section of the send mutex
    recvLog,            \* the messages receive has returned, in the order of return
    skip_used,          \* whether skip has been called
    skipRun,            \* observer: skips made with no cursor set, then receives
    roundTrip,          \* observer: sends to an empty channel, skips, reset_skip, receives
    drain,              \* observer: the receives that follow a reset_skip
    peekRun             \* observer: a peek and the receive that follows it

chanVars == <<next, cell, queue_tail, pool_head, queue_head, pool_tail, skipped, cursor,
              pending, receivable, sent, received>>
lockVars == <<send_mutex, receive_mutex>>
awaitVars == <<awaited_messages, awaited_capacity, notified>>
threadVars == <<pc, op, message, local, res, seq>>
monVars == <<skipRun, roundTrip, drain, peekRun>>
ghostVars == <<hidden, visible, ares, pre, sendLog, recvLog, skip_used, monVars>>
vars == <<capacity, chanVars, lockVars, awaitVars, threadVars, ghostVars>>

Threads == DOMAIN pc
Nodes == DOMAIN next

\* Results: Ok(()), Ok(m), Err(Full(m)), Err(Empty), and a panic.
OkUnit == <<"Ok">>
Ok(m) == <<"Ok", m>>
Full(m) == <<"Full", m>>
Empty == <<"Empty">>
Panic == <<"Panic">>
NoRes == <<>>

NoLocal == [next_pos |-> NIL_NODE, read_ptr |-> NIL_NODE, tail_ptr |-> NIL_NODE,
            new_tail |-> NIL_NODE, count |-> 0, alloc_capacity |-> 0]

\* The channel's memory as one value.
Chan == [next |-> next, cell |-> cell, queue_tail |-> queue_tail, pool_head |-> pool_head,
         queue_head |-> queue_head, pool_tail |-> pool_tail, skipped |-> skipped,
         cursor |-> cursor, pending |-> pending, receivable |-> receivable,
         sent |-> sent, received |-> received,
         awaited_messages |-> awaited_messages, awaited_capacity |-> awaited_capacity]

----------------------------------------------------------------------------
\* create(capacity): node 0 is the queue, node 1 the pool's tail, every later
\* node points at the node allocated before it and the last one is pool_head.

\* A faulty create: one node too many is pushed.
PoolNodesExtra(c) == c + 1

\* for _ in 0..capacity: the nodes pushed after the two placeholders.
PoolNodes(c) == c

CreateNext(c) == [n \in 0..(PoolNodes(c) + 1) |-> IF n < 2 THEN NIL_NODE ELSE n - 1]

InitChan(c) ==
    /\ capacity = c
    /\ next = CreateNext(c)
    /\ cell = [n \in DOMAIN CreateNext(c) |-> <<>>]
    /\ queue_head = 0
    /\ queue_tail = 0
    /\ pool_tail = 1
    /\ pool_head = PoolNodes(c) + 1
    /\ skipped = NIL_NODE
    /\ cursor = NIL_NODE
    /\ pending = 0
    /\ receivable = 0
    /\ sent = 0
    /\ received = 0
    /\ awaited_messages = 0
    /\ awaited_capacity = 0
    /\ send_mutex = 0
    /\ receive_mutex = 0
    /\ notified = {}

InitThreads(T) ==
    /\ pc = [t \in T |-> "idle"]
    /\ op = [t \in T |-> "none"]
    /\ message = [t \in T |-> <<>>]
    /\ local = [t \in T |-> NoLocal]
    /\ res = [t \in T |-> NoRes]
    /\ seq = [t \in T |-> 0]

sendPtrs == <<queue_tail, pool_head>>
receivePtrs == <<queue_head, pool_tail, skipped, cursor>>
stats == <<pending, receivable, sent, received>>

Goto(t, l) == pc' = [pc EXCEPT ![t] = l]

\* The threads blocked in Condvar::wait or wait_timeout at the statement l:
\* notify_all marks them all.
Waiting(l) == {t \in Threads : pc[t] = l}

\* fetch_add and fetch_sub on an AtomicUsize wrap around.  The counters are
\* kept 30 bits wide, the widest the model's integers can wrap without
\* overflowing themselves.
USIZE_MAX == 1073741823
FetchAdd(x, n) == (x + n) % (USIZE_MAX + 1)
FetchSub(x, n) == IF x >= n THEN x - n ELSE USIZE_MAX - (n - x - 1)

\* A thread that panics keeps the mutex it holds (the mutex is poisoned).
PanicAt(t) ==
    /\ pc' = [pc EXCEPT ![t] = "panicked"]
    /\ res' = [res EXCEPT ![t] = Panic]

----------------------------------------------------------------------------
\* SeccSender::send

\* A faulty lock: the sender enters the critical section whether or not another
\* sender is inside.
SendLockShared(t) ==
    /\ pc[t] = "send_lock"
    /\ send_mutex' = t
    /\ Goto(t, "send_load")
    /\ UNCHANGED <<capacity, awaitVars, chanVars, receive_mutex, op, message, local, res, seq,
                   ghostVars>>

\* let mut send_ptrs = mutex.lock().unwrap();
SendLock(t) ==
    /\ pc[t] = "send_lock"
    /\ send_mutex = 0
    /\ send_mutex' = t
    /\ Goto(t, "send_load")
    /\ UNCHANGED <<capacity, awaitVars, chanVars, receive_mutex, op, message, local, res, seq, ghostVars>>

\* A faulty test: full as soon as the pool is down to its last free node.
SendIsFullEarly(next_pool_head) ==
    next_pool_head = NIL_NODE \/ next[next_pool_head] = NIL_NODE

\* NIL_NODE == next_pool_head
SendIsFull(next_pool_head) == next_pool_head = NIL_NODE

\* let next_pool_head = (*pool_head_ptr).next.load(..); if NIL_NODE == next_pool_head
SendLoad(t) ==
    /\ pc[t] = "send_load"
    /\ local' = [local EXCEPT ![t].next_pos = next[pool_head]]
    /\ Goto(t, IF SendIsFull(next[pool_head]) THEN "send_full" ELSE "send_cell")
    /\ sendLog' = IF SendIsFull(next[pool_head]) THEN sendLog ELSE Append(sendLog, message[t][1])
    /\ UNCHANGED <<capacity, awaitVars, chanVars, lockVars, op, message, res, seq, hidden,
                   visible, ares, pre, recvLog, skip_used, monVars>>

\* A faulty return of Full: the send is counted although it failed.
SendFullCounted(t) ==
    /\ pc[t] = "send_full"
    /\ send_mutex' = 0
    /\ sent' = FetchAdd(sent, 1)
    /\ res' = [res EXCEPT ![t] = Full(message[t][1])]
    /\ message' = [message EXCEPT ![t] = <<>>]
    /\ local' = [local EXCEPT ![t] = NoLocal]
    /\ Goto(t, "ret")
    /\ UNCHANGED <<capacity, awaitVars, next, cell, sendPtrs, receivePtrs, pending, receivable, received,
                   receive_mutex, op, seq, ghostVars>>

\* A faulty return of Full: the mutex of send_ptrs stays locked.
SendFullLocked(t) ==
    /\ pc[t] = "send_full"
    /\ res' = [res EXCEPT ![t] = Full(message[t][1])]
    /\ message' = [message EXCEPT ![t] = <<>>]
    /\ local' = [local EXCEPT ![t] = NoLocal]
    /\ Goto(t, "ret")
    /\ UNCHANGED <<capacity, awaitVars, chanVars, lockVars, op, seq, ghostVars>>

\* Err(SeccErrors::Full(message)), and the guard is dropped
SendFull(t) ==
    /\ pc[t] = "send_full"
    /\ send_mutex' = 0
    /\ res' = [res EXCEPT ![t] = Full(message[t][1])]
    /\ message' = [message EXCEPT ![t] = <<>>]
    /\ local' = [local EXCEPT ![t] = NoLocal]
    /\ Goto(t, "ret")
    /\ UNCHANGED <<capacity, awaitVars, chanVars, receive_mutex, op, seq, ghostVars>>

\* A faulty write: the message goes to the queue's head.
SendTargetHead == queue_head

\* A faulty write: the message goes to the node taken from the pool, which
\* becomes the queue's tail.
SendTargetNewTail == pool_head

\* The node the message is written to: the queue's tail.
SendTarget == queue_tail

\* (*(*queue_tail_ptr).cell.get()) = Some(message); then the pointers in the
\* mutex: queue_tail = pool_head, pool_head = next_pool_head.
SendCell(t) ==
    /\ pc[t] = "send_cell"
    /\ cell' = [cell EXCEPT ![SendTarget] = message[t]]
    /\ message' = [message EXCEPT ![t] = <<>>]
    /\ local' = [local EXCEPT ![t].tail_ptr = queue_tail, ![t].new_tail = pool_head]
    /\ queue_tail' = pool_head
    /\ pool_head' = local[t].next_pos
    /\ Goto(t, "send_sent")
    /\ UNCHANGED <<capacity, awaitVars, next, receivePtrs, stats, lockVars, op, res, seq, ghostVars>>

\* self.core.sent.fetch_add(1, ..)
SendSent(t) ==
    /\ pc[t] = "send_sent"
    /\ sent' = FetchAdd(sent, 1)
    /\ Goto(t, "send_receivable")
    /\ UNCHANGED <<capacity, awaitVars, next, cell, sendPtrs, receivePtrs, pending, receivable, received,
                   lockVars, op, message, local, res, seq, ghostVars>>

\* self.core.receivable.fetch_add(1, ..)
SendReceivable(t) ==
    /\ pc[t] = "send_receivable"
    /\ receivable' = FetchAdd(receivable, 1)
    /\ Goto(t, "send_pending")
    /\ UNCHANGED <<capacity, awaitVars, next, cell, sendPtrs, receivePtrs, pending, sent, received,
                   lockVars, op, message, local, res, seq, ghostVars>>

\* self.core.pending.fetch_add(1, ..)
SendPending(t) ==
    /\ pc[t] = "send_pending"
    /\ pending' = FetchAdd(pending, 1)
    /\ Goto(t, "send_clear")
    /\ UNCHANGED <<capacity, awaitVars, next, cell, sendPtrs, receivePtrs, receivable, sent, received,
                   lockVars, op, message, local, res, seq, ghostVars>>

\* A faulty send: the next of the node that becomes the queue's tail is not
\* reset, so it still points into the pool.
SendClearKept(t) ==
    /\ pc[t] = "send_clear"
    /\ Goto(t, "send_publish")
    /\ UNCHANGED <<capacity, awaitVars, chanVars, lockVars, op, message, local, res, seq,
                   ghostVars>>

\* (*pool_head_ptr).next.store(NIL_NODE, ..)
SendClear(t) ==
    /\ pc[t] = "send_clear"
    /\ next' = [next EXCEPT ![local[t].new_tail] = NIL_NODE]
    /\ Goto(t, "send_publish")
    /\ UNCHANGED <<capacity, awaitVars, cell, sendPtrs, receivePtrs, stats, lockVars, op, message, local,
                   res, seq, ghostVars>>

\* (*queue_tail_ptr).next.store(old_pool_head, ..)
SendPublish(t) ==
    /\ pc[t] = "send_publish"
    /\ next' = [next EXCEPT ![local[t].tail_ptr] = local[t].new_tail]
    /\ Goto(t, "send_notify")
    /\ UNCHANGED <<capacity, awaitVars, cell, sendPtrs, receivePtrs, stats, lockVars, op, message, local,
                   res, seq, ghostVars>>

\* condvar.notify_all()
SendNotify(t) ==
    /\ pc[t] = "send_notify"
    /\ notified' = notified \cup Waiting("ra_wait")
    /\ Goto(t, "send_unlock")
    /\ UNCHANGED <<capacity, awaited_messages, awaited_capacity, chanVars, lockVars, op, message, local, res, seq, ghostVars>>

\* Ok(()), and the guard is dropped
SendUnlock(t) ==
    /\ pc[t] = "send_unlock"
    /\ send_mutex' = 0
    /\ res' = [res EXCEPT ![t] = OkUnit]
    /\ local' = [local EXCEPT ![t] = NoLocal]
    /\ seq' = [seq EXCEPT ![t] = @ + 1]
    /\ Goto(t, "ret")
    /\ UNCHANGED <<capacity, awaitVars, chanVars, receive_mutex, op, message, ghostVars>>

----------------------------------------------------------------------------
\* SeccReceiver::receive

\* A faulty read position: the cursor is ignored.
ReadPtrHead == queue_head

\* The node receive, peek and skip read from: the cursor when one is set.
ReadPtr == IF cursor = NIL_NODE THEN queue_head ELSE cursor

\* let mut receive_ptrs = mutex.lock().unwrap();
RecvLock(t) ==
    /\ pc[t] = "recv_lock"
    /\ receive_mutex = 0
    /\ receive_mutex' = t
    /\ Goto(t, "recv_load")
    /\ UNCHANGED <<capacity, awaitVars, chanVars, send_mutex, op, message, local, res, seq, ghostVars>>

\* let next_read_pos = (*read_ptr).next.load(..); if NIL_NODE == next_read_pos
RecvLoad(t) ==
    /\ pc[t] = "recv_load"
    /\ local' = [local EXCEPT ![t].read_ptr = ReadPtr, ![t].next_pos = next[ReadPtr]]
    /\ Goto(t, IF next[ReadPtr] = NIL_NODE THEN "recv_empty" ELSE "recv_take")
    /\ UNCHANGED <<capacity, awaitVars, chanVars, lockVars, op, message, res, seq, ghostVars>>

\* A faulty return of Empty: the cursor is dropped on the way out.
RecvEmptyReset(t) ==
    /\ pc[t] = "recv_empty"
    /\ receive_mutex' = 0
    /\ cursor' = NIL_NODE
    /\ skipped' = NIL_NODE
    /\ res' = [res EXCEPT ![t] = Empty]
    /\ local' = [local EXCEPT ![t] = NoLocal]
    /\ Goto(t, "ret")
    /\ UNCHANGED <<capacity, awaitVars, next, cell, sendPtrs, queue_head, pool_tail, stats, send_mutex,
                   op, message, seq, ghostVars>>

\* Err(SeccErrors::Empty), and the guard is dropped
RecvEmpty(t) ==
    /\ pc[t] = "recv_empty"
    /\ receive_mutex' = 0
    /\ res' = [res EXCEPT ![t] = Empty]
    /\ local' = [local EXCEPT ![t] = NoLocal]
    /\ Goto(t, "ret")
    /\ UNCHANGED <<capacity, awaitVars, chanVars, send_mutex, op, message, seq, ghostVars>>

\* A faulty take: the cell of the node after read_ptr.
TakeFromNext(t) == local[t].next_pos

\* The node whose cell receive takes: the node read_ptr points at.
TakeFrom(t) == local[t].read_ptr

\* A faulty take: the payload is copied and left in the cell.
RecvTakeCopy(t) ==
    /\ pc[t] = "recv_take"
    /\ IF cell[TakeFrom(t)] = <<>>
       THEN /\ PanicAt(t)
            /\ UNCHANGED message
       ELSE /\ message' = [message EXCEPT ![t] = cell[TakeFrom(t)]]
            /\ Goto(t, "recv_clear")
            /\ UNCHANGED res
    /\ UNCHANGED <<capacity, awaitVars, next, cell, sendPtrs, receivePtrs, stats, lockVars, op,
                   local, seq, ghostVars>>

\* let message: T = (*(*read_ptr).cell.get()).take().unwrap();
RecvTake(t) ==
    /\ pc[t] = "recv_take"
    /\ IF cell[TakeFrom(t)] = <<>>
       THEN /\ PanicAt(t)
            /\ UNCHANGED <<cell, message>>
       ELSE /\ message' = [message EXCEPT ![t] = cell[TakeFrom(t)]]
            /\ cell' = [cell EXCEPT ![TakeFrom(t)] = <<>>]
            /\ Goto(t, "recv_clear")
            /\ UNCHANGED res
    /\ UNCHANGED <<capacity, awaitVars, next, sendPtrs, receivePtrs, stats, lockVars, op, local, seq,
                   ghostVars>>

\* A faulty receive: the queue's head goes to the pool even when a cursor is set.
RecvClearHeadAlways(t) ==
    /\ pc[t] = "recv_clear"
    /\ next' = [next EXCEPT ![local[t].read_ptr] = NIL_NODE]
    /\ pool_tail' = queue_head
    /\ queue_head' = local[t].next_pos
    /\ local' = [local EXCEPT ![t].tail_ptr = pool_tail, ![t].new_tail = queue_head]
    /\ Goto(t, "recv_received")
    /\ UNCHANGED <<capacity, awaitVars, cell, sendPtrs, skipped, cursor, stats, lockVars, op,
                   message, res, seq, ghostVars>>

\* let pool_tail_ptr = ..[receive_ptrs.pool_tail]; (*read_ptr).next.store(NIL_NODE, ..);
\* without a cursor the queue's head becomes the pool's tail:
\* pool_tail = queue_head, queue_head = next_read_pos.
RecvClear(t) ==
    /\ pc[t] = "recv_clear"
    /\ next' = [next EXCEPT ![local[t].read_ptr] = NIL_NODE]
    /\ IF cursor = NIL_NODE
       THEN /\ pool_tail' = queue_head
            /\ queue_head' = local[t].next_pos
            /\ local' = [local EXCEPT ![t].tail_ptr = pool_tail, ![t].new_tail = queue_head]
            /\ Goto(t, "recv_received")
       ELSE /\ local' = [local EXCEPT ![t].tail_ptr = pool_tail]
            /\ Goto(t, "recv_relink")
            /\ UNCHANGED <<pool_tail, queue_head>>
    /\ UNCHANGED <<capacity, awaitVars, cell, sendPtrs, skipped, cursor, stats, lockVars, op, message, res,
                   seq, ghostVars>>

\* A faulty relink: the skipped node is cut off from the rest of the queue.
RecvRelinkCut(t) ==
    /\ pc[t] = "recv_relink"
    /\ next' = [next EXCEPT ![skipped] = NIL_NODE]
    /\ Goto(t, "recv_clear_again")
    /\ UNCHANGED <<capacity, awaitVars, cell, sendPtrs, receivePtrs, stats, lockVars, op, message, local,
                   res, seq, ghostVars>>

\* A faulty relink: the queue's head, not the skipped node, is linked to the
\* node after the one received.
RecvRelinkHead(t) ==
    /\ pc[t] = "recv_relink"
    /\ next' = [next EXCEPT ![queue_head] = local[t].next_pos]
    /\ Goto(t, "recv_clear_again")
    /\ UNCHANGED <<capacity, awaitVars, cell, sendPtrs, receivePtrs, stats, lockVars, op, message, local,
                   res, seq, ghostVars>>

\* with a cursor: ((*skipped_ptr).next).store(next_read_pos, ..)
RecvRelink(t) ==
    /\ pc[t] = "recv_relink"
    /\ next' = [next EXCEPT ![skipped] = local[t].next_pos]
    /\ Goto(t, "recv_clear_again")
    /\ UNCHANGED <<capacity, awaitVars, cell, sendPtrs, receivePtrs, stats, lockVars, op, message, local,
                   res, seq, ghostVars>>

\* A faulty cursor receive: the cursor is left on the node that goes to the
\* pool.
RecvClearAgainStale(t) ==
    /\ pc[t] = "recv_clear_again"
    /\ next' = [next EXCEPT ![local[t].read_ptr] = NIL_NODE]
    /\ pool_tail' = cursor
    /\ local' = [local EXCEPT ![t].new_tail = cursor]
    /\ Goto(t, "recv_received")
    /\ UNCHANGED <<capacity, awaitVars, cell, sendPtrs, queue_head, skipped, cursor, stats,
                   lockVars, op, message, res, seq, ghostVars>>

\* (*read_ptr).next.store(NIL_NODE, ..); pool_tail = cursor; cursor = next_read_pos
RecvClearAgain(t) ==
    /\ pc[t] = "recv_clear_again"
    /\ next' = [next EXCEPT ![local[t].read_ptr] = NIL_NODE]
    /\ pool_tail' = cursor
    /\ cursor' = local[t].next_pos
    /\ local' = [local EXCEPT ![t].new_tail = cursor]
    /\ Goto(t, "recv_received")
    /\ UNCHANGED <<capacity, awaitVars, cell, sendPtrs, queue_head, skipped, stats, lockVars, op, message,
                   res, seq, ghostVars>>

\* self.core.received.fetch_add(1, ..)
RecvReceived(t) ==
    /\ pc[t] = "recv_received"
    /\ received' = FetchAdd(received, 1)
    /\ Goto(t, "recv_receivable")
    /\ UNCHANGED <<capacity, awaitVars, next, cell, sendPtrs, receivePtrs, pending, receivable, sent,
                   lockVars, op, message, local, res, seq, ghostVars>>

\* A faulty receive: receivable is not decremented.
RecvReceivableKept(t) ==
    /\ pc[t] = "recv_receivable"
    /\ Goto(t, "recv_pending")
    /\ UNCHANGED <<capacity, awaitVars, chanVars, lockVars, op, message, local, res, seq,
                   ghostVars>>

\* self.core.receivable.fetch_sub(1, ..)
RecvReceivable(t) ==
    /\ pc[t] = "recv_receivable"
    /\ receivable' = FetchSub(receivable, 1)
    /\ Goto(t, "recv_pending")
    /\ UNCHANGED <<capacity, awaitVars, next, cell, sendPtrs, receivePtrs, pending, sent, received,
                   lockVars, op, message, local, res, seq, ghostVars>>

\* A faulty receive: pending is not decremented.
RecvPendingKept(t) ==
    /\ pc[t] = "recv_pending"
    /\ Goto(t, "recv_publish")
    /\ UNCHANGED <<capacity, awaitVars, chanVars, lockVars, op, message, local, res, seq,
                   ghostVars>>

\* self.core.pending.fetch_sub(1, ..)
RecvPending(t) ==
    /\ pc[t] = "recv_pending"
    /\ pending' = FetchSub(pending, 1)
    /\ Goto(t, "recv_publish")
    /\ UNCHANGED <<capacity, awaitVars, next, cell, sendPtrs, receivePtrs, receivable, sent, received,
                   lockVars, op, message, local, res, seq, ghostVars>>

\* (*pool_tail_ptr).next.store(new_pool_tail, ..)
RecvPublish(t) ==
    /\ pc[t] = "recv_publish"
    /\ next' = [next EXCEPT ![local[t].tail_ptr] = local[t].new_tail]
    /\ Goto(t, "recv_notify")
    /\ UNCHANGED <<capacity, awaitVars, cell, sendPtrs, receivePtrs, stats, lockVars, op, message, local,
                   res, seq, ghostVars>>

\* condvar.notify_all()
RecvNotify(t) ==
    /\ pc[t] = "recv_notify"
    /\ notified' = notified \cup Waiting("sa_wait")
    /\ Goto(t, "recv_unlock")
    /\ UNCHANGED <<capacity, awaited_messages, awaited_capacity, chanVars, lockVars, op, message, local, res, seq, ghostVars>>

\* Ok(message), and the guard is dropped
RecvUnlock(t) ==
    /\ pc[t] = "recv_unlock"
    /\ receive_mutex' = 0
    /\ res' = [res EXCEPT ![t] = Ok(message[t][1])]
    /\ message' = [message EXCEPT ![t] = <<>>]
    /\ local' = [local EXCEPT ![t] = NoLocal]
    /\ recvLog' = Append(recvLog, message[t][1])
    /\ Goto(t, "ret")
    /\ UNCHANGED <<capacity, awaitVars, chanVars, send_mutex, op, seq, hidden, visible, ares, pre,
                   sendLog, skip_used, monVars>>

----------------------------------------------------------------------------
\* SeccReceiver::peek

PeekLock(t) ==
    /\ pc[t] = "peek_lock"
    /\ receive_mutex = 0
    /\ receive_mutex' = t
    /\ Goto(t, "peek_load")
    /\ UNCHANGED <<capacity, awaitVars, chanVars, send_mutex, op, message, local, res, seq, ghostVars>>

PeekLoad(t) ==
    /\ pc[t] = "peek_load"
    /\ local' = [local EXCEPT ![t].read_ptr = ReadPtr, ![t].next_pos = next[ReadPtr]]
    /\ Goto(t, IF next[ReadPtr] = NIL_NODE THEN "peek_empty" ELSE "peek_read")
    /\ UNCHANGED <<capacity, awaitVars, chanVars, lockVars, op, message, res, seq, ghostVars>>

PeekEmpty(t) ==
    /\ pc[t] = "peek_empty"
    /\ receive_mutex' = 0
    /\ res' = [res EXCEPT ![t] = Empty]
    /\ local' = [local EXCEPT ![t] = NoLocal]
    /\ Goto(t, "ret")
    /\ UNCHANGED <<capacity, awaitVars, chanVars, send_mutex, op, message, seq, ghostVars>>

\* A faulty peek: the message is taken out of the cell.
PeekReadTake(t) ==
    /\ pc[t] = "peek_read"
    /\ cell[local[t].read_ptr] # <<>>
    /\ res' = [res EXCEPT ![t] = Ok(cell[local[t].read_ptr][1])]
    /\ cell' = [cell EXCEPT ![local[t].read_ptr] = <<>>]
    /\ receive_mutex' = 0
    /\ local' = [local EXCEPT ![t] = NoLocal]
    /\ Goto(t, "ret")
    /\ UNCHANGED <<capacity, awaitVars, next, sendPtrs, receivePtrs, stats, send_mutex, op, message, seq,
                   ghostVars>>

\* (*((*read_ptr).cell).get()).as_ref().expect(..); Ok(message), the guard dropped
PeekRead(t) ==
    /\ pc[t] = "peek_read"
    /\ IF cell[local[t].read_ptr] = <<>>
       THEN /\ PanicAt(t)
            /\ UNCHANGED <<receive_mutex, local>>
       ELSE /\ res' = [res EXCEPT ![t] = Ok(cell[local[t].read_ptr][1])]
            /\ receive_mutex' = 0
            /\ local' = [local EXCEPT ![t] = NoLocal]
            /\ Goto(t, "ret")
    /\ UNCHANGED <<capacity, awaitVars, chanVars, send_mutex, op, message, seq, ghostVars>>

----------------------------------------------------------------------------
\* SeccReceiver::skip

SkipLock(t) ==
    /\ pc[t] = "skip_lock"
    /\ receive_mutex = 0
    /\ receive_mutex' = t
    /\ Goto(t, "skip_load")
    /\ UNCHANGED <<capacity, awaitVars, chanVars, send_mutex, op, message, local, res, seq, ghostVars>>

\* let next_read_pos = (*read_ptr).next.load(..); if NIL_NODE == next_read_pos
SkipLoad(t) ==
    /\ pc[t] = "skip_load"
    /\ local' = [local EXCEPT ![t].read_ptr = ReadPtr, ![t].next_pos = next[ReadPtr]]
    /\ Goto(t, IF next[ReadPtr] = NIL_NODE THEN "skip_empty" ELSE "skip_advance")
    /\ UNCHANGED <<capacity, awaitVars, chanVars, lockVars, op, message, res, seq, ghostVars>>

\* A faulty return of Empty from skip: receivable is decremented before the test.
SkipEmptyCounted(t) ==
    /\ pc[t] = "skip_empty"
    /\ receive_mutex' = 0
    /\ receivable' = FetchSub(receivable, 1)
    /\ res' = [res EXCEPT ![t] = Empty]
    /\ local' = [local EXCEPT ![t] = NoLocal]
    /\ Goto(t, "ret")
    /\ UNCHANGED <<capacity, awaitVars, next, cell, sendPtrs, receivePtrs, pending, sent, received,
                   send_mutex, op, message, seq, ghostVars>>

\* return Err(SeccErrors::Empty)
SkipEmpty(t) ==
    /\ pc[t] = "skip_empty"
    /\ receive_mutex' = 0
    /\ res' = [res EXCEPT ![t] = Empty]
    /\ local' = [local EXCEPT ![t] = NoLocal]
    /\ Goto(t, "ret")
    /\ UNCHANGED <<capacity, awaitVars, chanVars, send_mutex, op, message, seq, ghostVars>>

\* A faulty skip: the skipped node is always the queue's head.
SkipPrecursorHead == queue_head

\* The node that becomes skipped: queue_head when a cursor is established,
\* the old cursor when one is moved.
SkipPrecursor == IF cursor = NIL_NODE THEN queue_head ELSE cursor

\* A faulty skip: receivable is left as it was.
SkipAdvanceUncounted(t) ==
    /\ pc[t] = "skip_advance"
    /\ skipped' = SkipPrecursor
    /\ cursor' = local[t].next_pos
    /\ Goto(t, "skip_unlock")
    /\ UNCHANGED <<capacity, awaitVars, next, cell, sendPtrs, queue_head, pool_tail, stats,
                   lockVars, op, message, local, res, seq, ghostVars>>

\* skipped = queue_head or cursor; cursor = next_read_pos; receivable.fetch_sub(1, ..)
SkipAdvance(t) ==
    /\ pc[t] = "skip_advance"
    /\ skipped' = SkipPrecursor
    /\ cursor' = local[t].next_pos
    /\ receivable' = FetchSub(receivable, 1)
    /\ Goto(t, "skip_unlock")
    /\ UNCHANGED <<capacity, awaitVars, next, cell, sendPtrs, queue_head, pool_tail, pending, sent,
                   received, lockVars, op, message, local, res, seq, ghostVars>>

\* A faulty skip: the waiters on the receive condvar are notified on the way out.
SkipUnlockNotifying(t) ==
    /\ pc[t] = "skip_unlock"
    /\ receive_mutex' = 0
    /\ notified' = notified \cup Waiting("sa_wait")
    /\ res' = [res EXCEPT ![t] = OkUnit]
    /\ local' = [local EXCEPT ![t] = NoLocal]
    /\ Goto(t, "ret")
    /\ UNCHANGED <<capacity, awaited_messages, awaited_capacity, chanVars, send_mutex, op,
                   message, seq, ghostVars>>

\* Ok(()), and the guard is dropped
SkipUnlock(t) ==
    /\ pc[t] = "skip_unlock"
    /\ receive_mutex' = 0
    /\ res' = [res EXCEPT ![t] = OkUnit]
    /\ local' = [local EXCEPT ![t] = NoLocal]
    /\ Goto(t, "ret")
    /\ UNCHANGED <<capacity, awaitVars, chanVars, send_mutex, op, message, seq, ghostVars>>

----------------------------------------------------------------------------
\* SeccReceiver::reset_skip

ResetLock(t) ==
    /\ pc[t] = "reset_lock"
    /\ receive_mutex = 0
    /\ receive_mutex' = t
    /\ Goto(t, "reset_start")
    /\ UNCHANGED <<capacity, awaitVars, chanVars, send_mutex, op, message, local, res, seq, ghostVars>>

\* A faulty reset_skip: the nodes are counted whether or not a cursor is set.
ResetStartAlways(t) ==
    /\ pc[t] = "reset_start"
    /\ local' = [local EXCEPT ![t].count = 1, ![t].next_pos = next[queue_head]]
    /\ Goto(t, "reset_walk")
    /\ UNCHANGED <<capacity, awaitVars, chanVars, lockVars, op, message, res, seq, ghostVars>>

\* if receive_ptrs.cursor != NIL_NODE { let mut count = 1; let mut next_ptr =
\* queue_head's next
ResetStart(t) ==
    /\ pc[t] = "reset_start"
    /\ IF cursor = NIL_NODE
       THEN /\ Goto(t, "reset_notify")
            /\ UNCHANGED local
       ELSE /\ local' = [local EXCEPT ![t].count = 1, ![t].next_pos = next[queue_head]]
            /\ Goto(t, "reset_walk")
    /\ UNCHANGED <<capacity, awaitVars, chanVars, lockVars, op, message, res, seq, ghostVars>>

\* while next_ptr != receive_ptrs.cursor { count += 1; next_ptr = next_ptr's next }
\* Indexing node_ptrs with NIL_NODE is out of bounds and panics.
ResetWalk(t) ==
    /\ pc[t] = "reset_walk"
    /\ local[t].next_pos # cursor
    /\ IF local[t].next_pos \in Nodes
       THEN /\ local' = [local EXCEPT ![t].count = @ + 1,
                                      ![t].next_pos = next[local[t].next_pos]]
            /\ UNCHANGED <<pc, res>>
       ELSE /\ PanicAt(t)
            /\ UNCHANGED local
    /\ UNCHANGED <<capacity, awaitVars, chanVars, lockVars, op, message, seq, ghostVars>>

\* A faulty reset_skip: the count starts at 0, so one node is not counted.
ResetAddUncounted(t) ==
    /\ pc[t] = "reset_walk"
    /\ local[t].next_pos = cursor
    /\ receivable' = FetchAdd(receivable, local[t].count - 1)
    /\ cursor' = NIL_NODE
    /\ skipped' = NIL_NODE
    /\ Goto(t, "reset_notify")
    /\ UNCHANGED <<capacity, awaitVars, next, cell, sendPtrs, queue_head, pool_tail, pending, sent,
                   received, lockVars, op, message, local, res, seq, ghostVars>>

\* receivable.fetch_add(count, ..); cursor = NIL_NODE; skipped = NIL_NODE
ResetAdd(t) ==
    /\ pc[t] = "reset_walk"
    /\ local[t].next_pos = cursor
    /\ receivable' = FetchAdd(receivable, local[t].count)
    /\ cursor' = NIL_NODE
    /\ skipped' = NIL_NODE
    /\ Goto(t, "reset_notify")
    /\ UNCHANGED <<capacity, awaitVars, next, cell, sendPtrs, queue_head, pool_tail, pending, sent,
                   received, lockVars, op, message, local, res, seq, ghostVars>>

\* condvar.notify_all()
ResetNotify(t) ==
    /\ pc[t] = "reset_notify"
    /\ notified' = notified \cup Waiting("sa_wait")
    /\ Goto(t, "reset_unlock")
    /\ UNCHANGED <<capacity, awaited_messages, awaited_capacity, chanVars, lockVars, op, message, local, res, seq, ghostVars>>

\* Ok(()), and the guard is dropped
ResetUnlock(t) ==
    /\ pc[t] = "reset_unlock"
    /\ receive_mutex' = 0
    /\ res' = [res EXCEPT ![t] = OkUnit]
    /\ local' = [local EXCEPT ![t] = NoLocal]
    /\ Goto(t, "ret")
    /\ UNCHANGED <<capacity, awaitVars, chanVars, send_mutex, op, message, seq, ghostVars>>

----------------------------------------------------------------------------
\* SeccSender::send_await_timeout, with send_await as its timeout = None.
\* The call of self.send(message) runs the statements of send; it comes back
\* at "ret" with send's result in res.

SendAwaitOps == {"send_await", "send_await_timeout"}

\* match self.send(message) { Err(Full(v)) => { message = v; .. } v => return v }
SaMatch(t) ==
    /\ pc[t] = "ret"
    /\ op[t] \in SendAwaitOps
    /\ IF res[t][1] = "Full"
       THEN /\ message' = [message EXCEPT ![t] = <<res[t][2]>>]
            /\ Goto(t, "sa_lock")
       ELSE /\ Goto(t, "done")
            /\ UNCHANGED message
    /\ UNCHANGED <<capacity, awaitVars, chanVars, lockVars, op, local, res, seq, ghostVars>>

\* let (ref mutex, ref condvar) = &*self.core.receive_ptrs; mutex.lock().unwrap()
SaLock(t) ==
    /\ pc[t] = "sa_lock"
    /\ receive_mutex = 0
    /\ receive_mutex' = t
    /\ Goto(t, "sa_load")
    /\ UNCHANGED <<capacity, awaitVars, chanVars, send_mutex, op, message, local, res, seq,
                   ghostVars>>

\* if NIL_NODE != next_read_pos: the sender waits when the read position has
\* a successor.
SendAwaitMustWait(next_read_pos) == next_read_pos # NIL_NODE

\* let next_read_pos = read_ptr's next, read_ptr being the cursor or queue_head
SaLoad(t) ==
    /\ pc[t] = "sa_load"
    /\ local' = [local EXCEPT ![t].read_ptr = ReadPtr, ![t].next_pos = next[ReadPtr]]
    /\ Goto(t, IF SendAwaitMustWait(next[ReadPtr]) THEN "sa_block" ELSE "sa_again")
    /\ UNCHANGED <<capacity, awaitVars, chanVars, lockVars, op, message, res, seq, ghostVars>>

\* next_read_pos is NIL_NODE: the guard is dropped and the loop calls send again
SaAgain(t) ==
    /\ pc[t] = "sa_again"
    /\ receive_mutex' = 0
    /\ local' = [local EXCEPT ![t] = NoLocal]
    /\ Goto(t, "send_lock")
    /\ UNCHANGED <<capacity, awaitVars, chanVars, send_mutex, op, message, res, seq, ghostVars>>

\* condvar.wait(receive_ptrs) or condvar.wait_timeout(receive_ptrs, dur): the
\* mutex is released and the thread blocks
SaBlock(t) ==
    /\ pc[t] = "sa_block"
    /\ receive_mutex' = 0
    /\ notified' = notified \ {t}
    /\ Goto(t, "sa_wait")
    /\ UNCHANGED <<capacity, awaited_messages, awaited_capacity, chanVars, send_mutex, op,
                   message, local, res, seq, ghostVars>>

\* the wait returns after a notification: the mutex is taken again
SaWake(t) ==
    /\ pc[t] = "sa_wait"
    /\ t \in notified
    /\ receive_mutex = 0
    /\ receive_mutex' = t
    /\ notified' = notified \ {t}
    /\ Goto(t, "sa_woken")
    /\ UNCHANGED <<capacity, awaited_messages, awaited_capacity, chanVars, send_mutex, op,
                   message, local, res, seq, ghostVars>>

\* if result.1.timed_out() { return Err(SeccErrors::Full(message)); }
\* wait_timeout takes the mutex again before it returns; the guard is dropped.
SaTimeout(t) ==
    /\ pc[t] = "sa_wait"
    /\ op[t] = "send_await_timeout"
    /\ receive_mutex = 0
    /\ notified' = notified \ {t}
    /\ res' = [res EXCEPT ![t] = Full(message[t][1])]
    /\ message' = [message EXCEPT ![t] = <<>>]
    /\ local' = [local EXCEPT ![t] = NoLocal]
    /\ Goto(t, "done")
    /\ UNCHANGED <<capacity, awaited_messages, awaited_capacity, chanVars, lockVars, op, seq,
                   ghostVars>>

\* the guard the wait returned is dropped at the end of the match arm
SaWoken(t) ==
    /\ pc[t] = "sa_woken"
    /\ receive_mutex' = 0
    /\ Goto(t, "sa_count")
    /\ UNCHANGED <<capacity, awaitVars, chanVars, send_mutex, op, message, local, res, seq,
                   ghostVars>>

\* A faulty count of a wait: pending is incremented, not awaited_capacity.
SaCountPending(t) ==
    /\ pc[t] = "sa_count"
    /\ pending' = FetchAdd(pending, 1)
    /\ local' = [local EXCEPT ![t] = NoLocal]
    /\ Goto(t, "send_lock")
    /\ UNCHANGED <<capacity, awaitVars, next, cell, sendPtrs, receivePtrs, receivable, sent,
                   received, lockVars, op, message, res, seq, ghostVars>>

\* self.core.awaited_capacity.fetch_add(1, ..); and the loop calls send again
SaCount(t) ==
    /\ pc[t] = "sa_count"
    /\ awaited_capacity' = FetchAdd(awaited_capacity, 1)
    /\ local' = [local EXCEPT ![t] = NoLocal]
    /\ Goto(t, "send_lock")
    /\ UNCHANGED <<capacity, awaited_messages, notified, chanVars, lockVars, op, message, res,
                   seq, ghostVars>>

----------------------------------------------------------------------------
\* SeccReceiver::receive_await_timeout, with receive_await as its timeout = None.

RecvAwaitOps == {"receive_await", "receive_await_timeout"}

\* match self.receive() { Err(Empty) => { .. } v => return v }
RaMatch(t) ==
    /\ pc[t] = "ret"
    /\ op[t] \in RecvAwaitOps
    /\ Goto(t, IF res[t] = Empty THEN "ra_lock" ELSE "done")
    /\ UNCHANGED <<capacity, awaitVars, chanVars, lockVars, op, message, local, res, seq,
                   ghostVars>>

\* let (ref mutex, ref condvar) = &*self.core.send_ptrs; mutex.lock().unwrap()
RaLock(t) ==
    /\ pc[t] = "ra_lock"
    /\ send_mutex = 0
    /\ send_mutex' = t
    /\ Goto(t, "ra_load")
    /\ UNCHANGED <<capacity, awaitVars, chanVars, receive_mutex, op, message, local, res, seq,
                   ghostVars>>

\* if NIL_NODE != next_pool_head: the receiver waits when the pool's head has
\* a successor.
RecvAwaitMustWait(next_pool_head) == next_pool_head # NIL_NODE

\* let next_pool_head = pool_head's next
RaLoad(t) ==
    /\ pc[t] = "ra_load"
    /\ local' = [local EXCEPT ![t].next_pos = next[pool_head]]
    /\ Goto(t, IF RecvAwaitMustWait(next[pool_head]) THEN "ra_block" ELSE "ra_again")
    /\ UNCHANGED <<capacity, awaitVars, chanVars, lockVars, op, message, res, seq, ghostVars>>

\* next_pool_head is NIL_NODE: the guard is dropped and the loop calls receive again
RaAgain(t) ==
    /\ pc[t] = "ra_again"
    /\ send_mutex' = 0
    /\ local' = [local EXCEPT ![t] = NoLocal]
    /\ Goto(t, "recv_lock")
    /\ UNCHANGED <<capacity, awaitVars, chanVars, receive_mutex, op, message, res, seq,
                   ghostVars>>

\* condvar.wait(send_ptrs) or condvar.wait_timeout(send_ptrs, dur)
RaBlock(t) ==
    /\ pc[t] = "ra_block"
    /\ send_mutex' = 0
    /\ notified' = notified \ {t}
    /\ Goto(t, "ra_wait")
    /\ UNCHANGED <<capacity, awaited_messages, awaited_capacity, chanVars, receive_mutex, op,
                   message, local, res, seq, ghostVars>>

\* the wait returns after a notification: the mutex is taken again
RaWake(t) ==
    /\ pc[t] = "ra_wait"
    /\ t \in notified
    /\ send_mutex = 0
    /\ send_mutex' = t
    /\ notified' = notified \ {t}
    /\ Goto(t, "ra_woken")
    /\ UNCHANGED <<capacity, awaited_messages, awaited_capacity, chanVars, receive_mutex, op,
                   message, local, res, seq, ghostVars>>

\* if result.1.timed_out() { return Err(SeccErrors::Empty); }
RaTimeout(t) ==
    /\ pc[t] = "ra_wait"
    /\ op[t] = "receive_await_timeout"
    /\ send_mutex = 0
    /\ notified' = notified \ {t}
    /\ res' = [res EXCEPT ![t] = Empty]
    /\ local' = [local EXCEPT ![t] = NoLocal]
    /\ Goto(t, "done")
    /\ UNCHANGED <<capacity, awaited_messages, awaited_capacity, chanVars, lockVars, op,
                   message, seq, ghostVars>>

\* the guard the wait returned is dropped at the end of the match arm
RaWoken(t) ==
    /\ pc[t] = "ra_woken"
    /\ send_mutex' = 0
    /\ Goto(t, "ra_count")
    /\ UNCHANGED <<capacity, awaitVars, chanVars, receive_mutex, op, message, local, res, seq,
                   ghostVars>>

\* self.core.awaited_messages.fetch_add(1, ..); and the loop calls receive again
RaCount(t) ==
    /\ pc[t] = "ra_count"
    /\ awaited_messages' = FetchAdd(awaited_messages, 1)
    /\ local' = [local EXCEPT ![t] = NoLocal]
    /\ Goto(t, "recv_lock")
    /\ UNCHANGED <<capacity, awaited_capacity, notified, chanVars, lockVars, op, message, res,
                   seq, ghostVars>>

\* Most waits that end, by a notification or spuriously, before a spurious
\* wakeup is left out.
MaxWakeups == 2

\* Condvar::wait and wait_timeout may return without a notification (a
\* spurious wakeup): the thread is marked as if it had been notified.
SpuriousWake(t) ==
    /\ pc[t] \in {"sa_wait", "ra_wait"}
    /\ t \notin notified
    /\ awaited_messages + awaited_capacity < MaxWakeups
    /\ notified' = notified \cup {t}
    /\ UNCHANGED <<capacity, awaited_messages, awaited_capacity, chanVars, lockVars,
                   threadVars, ghostVars>>

----------------------------------------------------------------------------
\* Calls and returns.

\* The statement each operation starts at.
Entry(o) ==
    CASE o \in {"send", "send_await", "send_await_timeout"} -> "send_lock"
      [] o \in {"receive", "receive_await", "receive_await_timeout"} -> "recv_lock"
      [] o = "peek" -> "peek_lock"
      [] o = "skip" -> "skip_lock"
      [] o = "reset_skip" -> "reset_lock"

\* Thread t calls operation o; m is Some(message) for a send, None otherwise.
\* A thread at "ret" has returned from its last operation; at "idle" its caller
\* has also taken note of the result.
Invoke(t, o, m) ==
    /\ pc[t] \in {"idle", "ret"}
    /\ op' = [op EXCEPT ![t] = o]
    /\ message' = [message EXCEPT ![t] = m]
    /\ res' = [res EXCEPT ![t] = NoRes]
    /\ Goto(t, Entry(o))
    /\ UNCHANGED <<capacity, awaitVars, chanVars, lockVars, local, seq>>

\* The i-th message of thread t.
Msg(t, i) == <<t, i>>

\* One statement of the operation thread t is in.
\* The statements of a send that finds a free node.
SendOkStep(t) ==
    \/ SendLock(t) \/ SendLoad(t) \/ SendCell(t) \/ SendSent(t)
    \/ SendReceivable(t) \/ SendPending(t) \/ SendClear(t) \/ SendPublish(t)
    \/ SendNotify(t) \/ SendUnlock(t)

SendStep(t) == SendOkStep(t) \/ SendFull(t)

\* The statements of a receive that finds a message.
RecvOkStep(t) ==
    \/ RecvLock(t) \/ RecvLoad(t) \/ RecvTake(t) \/ RecvClear(t)
    \/ RecvReceived(t) \/ RecvReceivable(t) \/ RecvPending(t) \/ RecvPublish(t)
    \/ RecvNotify(t) \/ RecvUnlock(t)

RecvStep(t) == RecvOkStep(t) \/ RecvEmpty(t)

\* The statements of receive's else branch, reached only with a cursor set.
RecvCursorStep(t) == RecvRelink(t) \/ RecvClearAgain(t)

PeekStep(t) == PeekLock(t) \/ PeekLoad(t) \/ PeekEmpty(t) \/ PeekRead(t)

SkipStep(t) ==
    SkipLock(t) \/ SkipLoad(t) \/ SkipEmpty(t) \/ SkipAdvance(t) \/ SkipUnlock(t)

ResetStep(t) ==
    \/ ResetLock(t) \/ ResetStart(t) \/ ResetWalk(t) \/ ResetAdd(t) \/ ResetNotify(t)
    \/ ResetUnlock(t)

\* The statements of send_await_timeout around its calls of send.
SendAwaitStep(t) ==
    \/ SaMatch(t) \/ SaLock(t) \/ SaLoad(t) \/ SaAgain(t) \/ SaBlock(t) \/ SaWake(t)
    \/ SaWoken(t) \/ SaCount(t)

\* The statements of receive_await_timeout around its calls of receive.
RecvAwaitStep(t) ==
    \/ RaMatch(t) \/ RaLock(t) \/ RaLoad(t) \/ RaAgain(t) \/ RaBlock(t) \/ RaWake(t)
    \/ RaWoken(t) \/ RaCount(t)

Step(t) ==
    \/ SendStep(t) \/ RecvStep(t) \/ RecvCursorStep(t) \/ PeekStep(t) \/ SkipStep(t)
    \/ ResetStep(t)

----------------------------------------------------------------------------
\* The reference model: two sequences, hidden and visible.

RefSend(m) ==
    IF Len(hidden) + Len(visible) = capacity
    THEN /\ ares' = Full(m)
         /\ UNCHANGED <<hidden, visible>>
    ELSE /\ ares' = OkUnit
         /\ visible' = Append(visible, m)
         /\ UNCHANGED hidden

RefReceive ==
    IF visible = <<>>
    THEN /\ ares' = Empty
         /\ UNCHANGED <<hidden, visible>>
    ELSE /\ ares' = Ok(Head(visible))
         /\ visible' = Tail(visible)
         /\ UNCHANGED hidden

RefPeek ==
    /\ ares' = IF visible = <<>> THEN Empty ELSE Ok(Head(visible))
    /\ UNCHANGED <<hidden, visible>>

RefSkip ==
    IF visible = <<>>
    THEN /\ ares' = Empty
         /\ UNCHANGED <<hidden, visible>>
    ELSE /\ ares' = OkUnit
         /\ hidden' = Append(hidden, Head(visible))
         /\ visible' = Tail(visible)

RefResetSkip ==
    /\ ares' = OkUnit
    /\ visible' = hidden \o visible
    /\ hidden' = <<>>

----------------------------------------------------------------------------
\* Spec: one thread holding both endpoints calls the operations one after
\* the other, as test_send_and_receive does.

CallSend(t) ==
    /\ pc[t] = "idle"
    /\ seq[t] < MaxSeqSends
    /\ Invoke(t, "send", <<Msg(t, seq[t] + 1)>>)
    /\ RefSend(Msg(t, seq[t] + 1))
    /\ pre' = Chan
    /\ UNCHANGED <<sendLog, recvLog, skip_used, monVars>>

CallReceive(t) ==
    /\ pc[t] = "idle"
    /\ Invoke(t, "receive", <<>>)
    /\ RefReceive
    /\ pre' = Chan
    /\ UNCHANGED <<sendLog, recvLog, skip_used, monVars>>

CallPeek(t) ==
    /\ pc[t] = "idle"
    /\ Invoke(t, "peek", <<>>)
    /\ RefPeek
    /\ pre' = Chan
    /\ UNCHANGED <<sendLog, recvLog, skip_used, monVars>>

CallSkip(t) ==
    /\ pc[t] = "idle"
    /\ Invoke(t, "skip", <<>>)
    /\ RefSkip
    /\ pre' = Chan
    /\ skip_used' = TRUE
    /\ UNCHANGED <<sendLog, recvLog, monVars>>

CallResetSkip(t) ==
    /\ pc[t] = "idle"
    /\ Invoke(t, "reset_skip", <<>>)
    /\ RefResetSkip
    /\ pre' = Chan
    /\ UNCHANGED <<sendLog, recvLog, skip_used, monVars>>

\* The payloads held by the nodes of the queue, from queue_head to the node
\* before the one whose next is NIL_NODE, in a channel value c.
RECURSIVE Walk(_, _, _)
Walk(c, n, fuel) ==
    IF fuel = 0 \/ n \notin DOMAIN c.next \/ c.next[n] = NIL_NODE
    THEN <<>>
    ELSE c.cell[n] \o Walk(c, c.next[n], fuel - 1)

QueueSeq(c) == Walk(c, c.queue_head, Cardinality(DOMAIN c.next))

Min(a, b) == IF a < b THEN a ELSE b
Range(f) == {f[i] : i \in DOMAIN f}

\* The messages of thread t that were sent and have not been received, in the
\* order of sending.
RECURSIVE SentFrom(_, _)
SentFrom(t, i) ==
    IF i > seq[t] THEN <<>>
    ELSE (IF Msg(t, i) \in Range(recvLog) THEN <<>> ELSE <<Msg(t, i)>>) \o SentFrom(t, i + 1)

RunOff == [on |-> FALSE, xs |-> <<>>, k |-> 0, r |-> 0, last |-> NoRes]

\* skipRun follows: a channel with no cursor holding xs, k successful skips,
\* then r receives, the last of which returned last.
SkipRunNext(t) ==
    CASE op[t] = "skip" ->
           IF res[t] # OkUnit THEN RunOff
           ELSE IF pre.cursor = NIL_NODE
                THEN [on |-> TRUE, xs |-> QueueSeq(pre), k |-> 1, r |-> 0, last |-> NoRes]
                ELSE IF skipRun.on /\ skipRun.r = 0
                     THEN [skipRun EXCEPT !.k = @ + 1]
                     ELSE RunOff
      [] op[t] = "receive" ->
           IF skipRun.on
           THEN [skipRun EXCEPT !.r = Min(@ + 1, Len(skipRun.xs) + 1), !.last = res[t]]
           ELSE RunOff
      [] OTHER -> RunOff

TripOff == [ph |-> "off", xs |-> <<>>, k |-> 0, r |-> 0, last |-> NoRes]

\* roundTrip follows: sends of xs starting on an empty channel, k successful
\* skips, reset_skip, then r receives, the last of which returned last.
RoundTripNext(t) ==
    CASE op[t] = "send" ->
           IF res[t] # OkUnit THEN TripOff
           ELSE IF pre.pending = 0
                THEN [TripOff EXCEPT !.ph = "send", !.xs = <<Msg(t, seq[t])>>]
                ELSE IF roundTrip.ph = "send"
                     THEN [roundTrip EXCEPT !.xs = Append(@, Msg(t, seq[t]))]
                     ELSE TripOff
      [] op[t] = "skip" ->
           IF res[t] = OkUnit /\ roundTrip.ph \in {"send", "skip"}
           THEN [roundTrip EXCEPT !.ph = "skip", !.k = @ + 1]
           ELSE TripOff
      [] op[t] = "reset_skip" ->
           IF roundTrip.ph \in {"send", "skip"}
           THEN [roundTrip EXCEPT !.ph = "reset"]
           ELSE TripOff
      [] op[t] = "receive" ->
           IF roundTrip.ph = "reset" /\ roundTrip.r < Len(roundTrip.xs)
           THEN [roundTrip EXCEPT !.r = @ + 1, !.last = res[t]]
           ELSE TripOff
      [] OTHER -> TripOff

DrainOff == [on |-> FALSE, xs |-> <<>>, r |-> 0, last |-> NoRes]

\* drain follows: reset_skip with xs sent and not received, then r receives,
\* the last of which returned last, with the sends made in between added to xs.
DrainNext(t) ==
    CASE op[t] = "reset_skip" ->
           [on |-> TRUE, xs |-> SentFrom(t, 1), r |-> 0, last |-> NoRes]
      [] op[t] = "receive" ->
           IF drain.on /\ drain.r < Len(drain.xs)
           THEN [drain EXCEPT !.r = @ + 1, !.last = res[t]]
           ELSE DrainOff
      [] op[t] = "send" ->
           IF drain.on /\ res[t] = OkUnit
           THEN [drain EXCEPT !.xs = Append(@, Msg(t, seq[t]))]
           ELSE drain
      [] op[t] = "peek" -> drain
      [] OTHER -> DrainOff

PeekOff == [peek |-> NoRes, recv |-> NoRes]

\* peekRun follows: a peek that returned peek, then at once a receive that
\* returned recv.
PeekRunNext(t) ==
    CASE op[t] = "peek" -> [peek |-> res[t], recv |-> NoRes]
      [] op[t] = "receive" ->
           IF peekRun.peek # NoRes /\ peekRun.recv = NoRes
           THEN [peekRun EXCEPT !.recv = res[t]]
           ELSE PeekOff
      [] OTHER -> PeekOff

\* The caller has the result; the observers take note of it.
Return(t) ==
    /\ pc[t] = "ret"
    /\ Goto(t, "idle")
    /\ skipRun' = SkipRunNext(t)
    /\ roundTrip' = RoundTripNext(t)
    /\ drain' = DrainNext(t)
    /\ peekRun' = PeekRunNext(t)
    /\ UNCHANGED <<capacity, awaitVars, chanVars, lockVars, op, message, local, res, seq,
                   hidden, visible, ares, pre, sendLog, recvLog, skip_used>>

InitGhost ==
    /\ hidden = <<>>
    /\ visible = <<>>
    /\ ares = NoRes
    /\ pre = Chan
    /\ sendLog = <<>>
    /\ recvLog = <<>>
    /\ skip_used = FALSE
    /\ skipRun = RunOff
    /\ roundTrip = TripOff
    /\ drain = DrainOff
    /\ peekRun = PeekOff

\* The one thread of Spec.
SeqThreads == {1}

Init ==
    /\ \E c \in 1..MaxCapacity : InitChan(c)
    /\ InitThreads(SeqThreads)
    /\ InitGhost

Next ==
    \E t \in SeqThreads :
        \/ CallSend(t) \/ CallReceive(t) \/ CallPeek(t) \/ CallSkip(t) \/ CallResetSkip(t)
        \/ Step(t)
        \/ Return(t)

Spec == Init /\ [][Next]_vars

----------------------------------------------------------------------------
\* SpecMPMC: two sender threads run send against two receiver threads that run
\* receive, each on its clone of the endpoint.  No thread calls skip, so no
\* cursor is ever set and receive's else branch is not among the steps.
\* SpecMPSC: two sender threads run send against one receiver thread that runs
\* receive, skip and reset_skip, the threads of
\* test_multiple_producer_single_receiver.

\* Largest capacity of the channel the threads share.
MaxConcCapacity == 2
\* Messages the sender threads send between them.
MaxConcSends == 3

Senders == {1, 2}
Receivers == {3, 4}
Consumers == {3}

\* The sends that have succeeded or are under way.
RECURSIVE SumSeq(_)
SumSeq(T) ==
    IF T = {} THEN 0
    ELSE LET t == CHOOSE u \in T : TRUE IN seq[t] + SumSeq(T \ {t})

Sending == {t \in Threads : op[t] = "send" /\ pc[t] \notin {"idle", "ret"}}

MCallSend(t) ==
    /\ SumSeq(Threads) + Cardinality(Sending) < MaxConcSends
    /\ Invoke(t, "send", <<Msg(t, seq[t] + 1)>>)
    /\ UNCHANGED ghostVars

MCallReceive(t) ==
    /\ Invoke(t, "receive", <<>>)
    /\ UNCHANGED ghostVars

MCallSkip(t) ==
    /\ Invoke(t, "skip", <<>>)
    /\ skip_used' = TRUE
    /\ UNCHANGED <<hidden, visible, ares, pre, sendLog, recvLog, monVars>>

MCallResetSkip(t) ==
    /\ Invoke(t, "reset_skip", <<>>)
    /\ UNCHANGED ghostVars

InitMPMC ==
    /\ \E c \in 1..MaxConcCapacity : InitChan(c)
    /\ InitThreads(Senders \cup Receivers)
    /\ InitGhost

NextMPMC ==
    \/ \E t \in Senders : MCallSend(t) \/ SendStep(t)
    \/ \E t \in Receivers : MCallReceive(t) \/ RecvStep(t)

SpecMPMC == InitMPMC /\ [][NextMPMC]_vars

InitMPSC ==
    /\ \E c \in 1..MaxConcCapacity : InitChan(c)
    /\ InitThreads(Senders \cup Consumers)
    /\ InitGhost

NextMPSC ==
    \/ \E t \in Senders : MCallSend(t) \/ SendStep(t)
    \/ \E t \in Consumers :
           \/ MCallReceive(t) \/ MCallSkip(t) \/ MCallResetSkip(t)
           \/ RecvStep(t) \/ RecvCursorStep(t) \/ SkipStep(t) \/ ResetStep(t)

SpecMPSC == InitMPSC /\ [][NextMPSC]_vars

----------------------------------------------------------------------------
\* The blocking calls.  Thread 1 makes the blocking call, thread 2 is the other
\* thread.  The threads are scheduled fairly: a thread whose next statement
\* can run is not held back for ever.  A spurious wakeup may never come.

\* Largest capacity of the channel a blocking call is made on.
MaxAwaitCapacity == 2

Waiter == {1}
Helper == {2}

InitAwait ==
    /\ \E c \in 1..MaxAwaitCapacity : InitChan(c)
    /\ InitThreads(Waiter \cup Helper)
    /\ InitGhost

\* Thread t makes its one call of operation o.
CallOnce(t, o, m) ==
    /\ pc[t] = "idle"
    /\ op[t] = "none"
    /\ Invoke(t, o, m)
    /\ pre' = Chan
    /\ UNCHANGED <<hidden, visible, ares, sendLog, recvLog, skip_used, monVars>>

\* SpecRecvAwait: receive_await is called on an empty channel and the other
\* thread sends one message, as test_receive_before_send and
\* test_receive_concurrent_send do.  The one send meets a channel that is not
\* full, so its Full branch is not among the steps.
WaiterRecvAwait(t) ==
    \/ CallOnce(t, "receive_await", <<>>)
    \/ RecvStep(t) \/ RecvAwaitStep(t)

HelperSend(t) ==
    \/ CallOnce(t, "send", <<Msg(t, 1)>>)
    \/ SendOkStep(t)

NextRecvAwait ==
    \/ \E t \in Waiter : WaiterRecvAwait(t) \/ SpuriousWake(t)
    \/ \E t \in Helper : HelperSend(t)

SpecRecvAwait ==
    /\ InitAwait
    /\ [][NextRecvAwait]_vars
    /\ WF_vars(\E t \in Waiter : WaiterRecvAwait(t))
    /\ WF_vars(\E t \in Helper : HelperSend(t))

\* SpecSendAwait: thread 1 fills the channel with plain sends and then calls
\* send_await on the full channel; once it has, the other thread makes one
\* receive, which meets a full channel, so its Empty branch is not among the
\* steps.
IsFull == next[pool_head] = NIL_NODE

FillSend(t) ==
    /\ op[t] \in {"none", "send"}
    /\ ~IsFull
    /\ Invoke(t, "send", <<Msg(t, seq[t] + 1)>>)
    /\ UNCHANGED ghostVars

CallSendAwait(t) ==
    /\ pc[t] \in {"idle", "ret"}
    /\ op[t] \in {"none", "send"}
    /\ IsFull
    /\ Invoke(t, "send_await", <<Msg(t, seq[t] + 1)>>)
    /\ pre' = Chan
    /\ UNCHANGED <<hidden, visible, ares, sendLog, recvLog, skip_used, monVars>>

WaiterSendAwait(t) ==
    \/ FillSend(t) \/ CallSendAwait(t)
    \/ SendStep(t) \/ SendAwaitStep(t)

HelperReceive(t) ==
    \/ (op[1] = "send_await" /\ CallOnce(t, "receive", <<>>))
    \/ RecvOkStep(t)

NextSendAwait ==
    \/ \E t \in Waiter : WaiterSendAwait(t) \/ SpuriousWake(t)
    \/ \E t \in Helper : HelperReceive(t)

SpecSendAwait ==
    /\ InitAwait
    /\ [][NextSendAwait]_vars
    /\ WF_vars(\E t \in Waiter : WaiterSendAwait(t))
    /\ WF_vars(\E t \in Helper : HelperReceive(t))

\* SpecTimedAwait: one thread brings the channel to any state it can reach
\* with send, receive, skip and reset_skip, and then makes one blocking call
\* with a finite timeout: send_await_timeout on a full channel or
\* receive_await_timeout on a channel with nothing to receive.  No other
\* thread runs.  A finite timeout expires: a thread inside wait_timeout is not
\* left there for ever.
AwaitOps == SendAwaitOps \cup RecvAwaitOps

Setup(t) ==
    /\ op[t] \notin AwaitOps
    /\ \/ MCallSend(t) \/ MCallReceive(t) \/ MCallSkip(t) \/ MCallResetSkip(t)

CallSendAwaitTimeout(t) ==
    /\ pc[t] \in {"idle", "ret"}
    /\ op[t] \notin AwaitOps
    /\ IsFull
    /\ Invoke(t, "send_await_timeout", <<Msg(t, seq[t] + 1)>>)
    /\ pre' = Chan
    /\ UNCHANGED <<hidden, visible, ares, sendLog, recvLog, skip_used, monVars>>

CallReceiveAwaitTimeout(t) ==
    /\ pc[t] \in {"idle", "ret"}
    /\ op[t] \notin AwaitOps
    /\ receivable = 0
    /\ Invoke(t, "receive_await_timeout", <<>>)
    /\ pre' = Chan
    /\ UNCHANGED <<hidden, visible, ares, sendLog, recvLog, skip_used, monVars>>

TimedAwaitRun(t) ==
    \/ SendStep(t) \/ RecvStep(t) \/ RecvCursorStep(t) \/ SkipStep(t) \/ ResetStep(t)
    \/ SendAwaitStep(t) \/ SaTimeout(t)
    \/ RecvAwaitStep(t) \/ RaTimeout(t)

InitTimedAwait ==
    /\ \E c \in 1..MaxAwaitCapacity : InitChan(c)
    /\ InitThreads(Waiter)
    /\ InitGhost

NextTimedAwait ==
    \E t \in Waiter :
        \/ Setup(t)
        \/ CallSendAwaitTimeout(t) \/ CallReceiveAwaitTimeout(t)
        \/ TimedAwaitRun(t)
        \/ SpuriousWake(t)

SpecTimedAwait ==
    /\ InitTimedAwait
    /\ [][NextTimedAwait]_vars
    /\ WF_vars(\E t \in Waiter : TimedAwaitRun(t))

\* SpecResetWakes: thread 1 sends and skips until messages are pending and
\* none is receivable, then calls receive_await; once it is inside
\* Condvar::wait, the other thread calls reset_skip once.  Nothing is received before the call, so the oldest
\* pending message is the first one sent.  After the reset there is no cursor,
\* so receive's else branch is not among the steps.
\* Largest capacity of the channel of SpecResetWakes: two messages can be
\* hidden while a node is still free.
MaxResetCapacity == 3

InitResetWakes ==
    /\ \E c \in 1..MaxResetCapacity : InitChan(c)
    /\ InitThreads(Waiter \cup Helper)
    /\ InitGhost

HideSetup(t) ==
    /\ op[t] \notin AwaitOps
    /\ \/ MCallSend(t) \/ MCallSkip(t)

CallReceiveAwaitHidden(t) ==
    /\ pc[t] \in {"idle", "ret"}
    /\ op[t] \notin AwaitOps
    /\ receivable = 0
    /\ pending > 0
    /\ Invoke(t, "receive_await", <<>>)
    /\ pre' = Chan
    /\ UNCHANGED <<hidden, visible, ares, sendLog, recvLog, skip_used, monVars>>

WaiterHidden(t) ==
    \/ HideSetup(t) \/ CallReceiveAwaitHidden(t)
    \/ SendStep(t) \/ SkipStep(t) \/ RecvStep(t) \/ RecvAwaitStep(t)

HelperReset(t) ==
    \/ (pc[1] = "ra_wait" /\ CallOnce(t, "reset_skip", <<>>))
    \/ ResetStep(t)

NextResetWakes ==
    \/ \E t \in Waiter : WaiterHidden(t) \/ SpuriousWake(t)
    \/ \E t \in Helper : HelperReset(t)

SpecResetWakes ==
    /\ InitResetWakes
    /\ [][NextResetWakes]_vars
    /\ WF_vars(\E t \in Waiter : WaiterHidden(t))
    /\ WF_vars(\E t \in Helper : HelperReset(t))

\* SpecAllOps: one sender thread runs send and send_await against one
\* receiver thread that runs receive, receive_await, peek, skip and reset_skip.
\* A thread that has returned from a blocking call makes its next call.
Producers == {1}

\* Most sends of SpecAllOps that succeed.
MaxOpsSends == 2

InFlight ==
    {t \in Threads : \/ op[t] = "send" /\ pc[t] \notin {"idle", "ret"}
                     \/ op[t] = "send_await" /\ pc[t] \notin {"idle", "done"}}

\* Thread t is between two calls.
Between(t) ==
    \/ pc[t] = "idle"
    \/ pc[t] = "ret" /\ op[t] \notin AwaitOps

ACallSend(t, o) ==
    /\ Between(t)
    /\ SumSeq(Threads) + Cardinality(InFlight) < MaxOpsSends
    /\ Invoke(t, o, <<Msg(t, seq[t] + 1)>>)
    /\ UNCHANGED ghostVars

ACallReceiver(t, o) ==
    /\ Between(t)
    /\ o = "reset_skip" => awaited_capacity < MaxWakeups
    /\ Invoke(t, o, <<>>)
    /\ skip_used' = (skip_used \/ o = "skip")
    /\ UNCHANGED <<hidden, visible, ares, pre, sendLog, recvLog, monVars>>

\* The blocking call of thread t has returned.
Finish(t) ==
    /\ pc[t] = "done"
    /\ Goto(t, "idle")
    /\ UNCHANGED <<capacity, awaitVars, chanVars, lockVars, op, message, local, res, seq,
                   ghostVars>>

InitAllOps ==
    /\ \E c \in 1..MaxConcCapacity : InitChan(c)
    /\ InitThreads(Producers \cup Consumers)
    /\ InitGhost

NextAllOps ==
    \/ \E t \in Producers :
           \/ \E o \in {"send", "send_await"} : ACallSend(t, o)
           \/ SendStep(t) \/ SendAwaitStep(t)
           \/ SpuriousWake(t) \/ Finish(t)
    \/ \E t \in Consumers :
           \/ \E o \in {"receive", "receive_await", "peek", "skip", "reset_skip"} :
                  ACallReceiver(t, o)
           \/ RecvStep(t) \/ RecvCursorStep(t) \/ RecvAwaitStep(t)
           \/ PeekStep(t) \/ SkipStep(t) \/ ResetStep(t)
           \/ SpuriousWake(t) \/ Finish(t)

SpecAllOps == InitAllOps /\ [][NextAllOps]_vars

\* Every thread is between two operations.
Quiet == \A t \in Threads : pc[t] \in {"idle", "ret"}

----------------------------------------------------------------------------
\* C1: every sequential run of send, receive, skip and reset_skip returns what
\* the reference model (hidden, visible) returns, and after every operation
\* pending = len(hidden) + len(visible) and receivable = len(visible).
RefinesReference ==
    \A t \in Threads :
        pc[t] \in {"ret", "idle"} =>
            /\ res[t] = ares
            /\ pending = Len(hidden) + Len(visible)
            /\ receivable = Len(visible)

\* A receive returned a message while messages are hidden behind the cursor and
\* others are still visible, after the nodes have been recycled.
RefinesReferenceSeen ==
    /\ pc[1] = "idle"
    /\ op[1] = "receive"
    /\ Len(res[1]) = 2
    /\ hidden # <<>>
    /\ visible # <<>>
    /\ sent > capacity

\* C2: while no skip has been called, the messages of each sender come out of
\* receive in the order that sender sent them, whatever the interleaving of
\* the sends and the receives and however often the nodes were recycled.
FifoPerSender ==
    ~skip_used =>
        \A s \in Senders :
            LET got == SelectSeq(recvLog, LAMBDA m : m[1] = s)
            IN  \A i \in 1..Len(got) : got[i] = Msg(s, i)

\* Three messages, two of them of one sender, went through a channel of
\* capacity 1 and no skip was made.
FifoPerSenderSeen ==
    /\ ~skip_used
    /\ capacity = 1
    /\ Len(recvLog) >= 3
    /\ \E s \in Senders : seq[s] >= 2

\* The messages whose send has returned Ok.
SentMsgs == UNION {{Msg(t, i) : i \in 1..seq[t]} : t \in Senders}

\* The messages a send has been called with and has not failed on.
StartedMsgs ==
    SentMsgs \cup
    {Msg(t, seq[t] + 1) : t \in {u \in Senders : op[u] = "send" /\ pc[u] \notin {"idle", "ret"}}}

\* C3: under any interleaving of senders and receivers no message is lost or
\* duplicated: receive returns only messages that were sent and none twice;
\* between operations the payloads in the queue's nodes are exactly the
\* messages sent and not yet received, each once; and once all are received
\* pending = receivable = 0 and sent = received.
NoLossNoDuplication ==
    /\ \A i \in DOMAIN recvLog : recvLog[i] \in StartedMsgs
    /\ \A i, j \in DOMAIN recvLog : i # j => recvLog[i] # recvLog[j]
    /\ Quiet =>
         LET q == QueueSeq(Chan)
             outstanding == SentMsgs \ Range(recvLog)
         IN  /\ Range(q) = outstanding
             /\ Len(q) = Cardinality(outstanding)
             /\ outstanding = {} =>
                  /\ pending = 0
                  /\ receivable = 0
                  /\ sent = received

\* Both senders had messages received, both receivers received one, and
\* everything sent has been received.
NoLossNoDuplicationSeen ==
    /\ Quiet
    /\ Len(recvLog) >= 3
    /\ \A s \in Senders : seq[s] >= 1
    /\ \A r \in Receivers : op[r] = "receive" /\ Len(res[r]) = 2
    /\ Len(recvLog) = seq[1] + seq[2]

\* The nodes that hold a message.
Held == {n \in Nodes : cell[n] # <<>>}

\* C4: in every reachable state, under any interleaving of the senders with a
\* receiver that receives, skips and resets, the channel holds at most capacity
\* messages, and pending never exceeds capacity.
CapacityIsHard ==
    /\ Cardinality(Held) <= capacity
    /\ pending <= capacity

\* A send finds the channel full while another thread is inside receive.
CapacityIsHardSeen ==
    /\ Cardinality(Held) = capacity
    /\ capacity >= 2
    /\ \E t \in Senders : pc[t] = "send_full"
    /\ \E t \in Consumers : op[t] = "receive" /\ pc[t] \notin {"idle", "ret"}
    /\ cursor # NIL_NODE

\* C5: between operations pool_head.next is NIL_NODE exactly when pending =
\* capacity, and a send returns Full exactly when it was called in such a state.
FullIffPoolEmpty ==
    \A t \in Threads :
        pc[t] \in {"ret", "idle"} =>
            /\ (next[pool_head] = NIL_NODE) <=> (pending = capacity)
            /\ op[t] = "send" =>
                 /\ (res[t] # OkUnit) <=> (pre.next[pre.pool_head] = NIL_NODE)
                 /\ (res[t] # OkUnit) <=> (pre.pending = capacity)
                 /\ res[t] # OkUnit => res[t][1] = "Full"

\* A send returned Full after a message was received from the middle of the
\* list and the nodes were recycled.
FullIffPoolEmptySeen ==
    /\ pc[1] = "idle"
    /\ op[1] = "send"
    /\ res[1] # OkUnit
    /\ sent >= capacity + 2
    /\ \E i, j \in DOMAIN recvLog : i < j /\ recvLog[i][2] > recvLog[j][2]

\* C6: a send that returns Full returns the message it was given and leaves
\* the pointers, every next link, every cell and the counters as they were.
FullSendChangesNothing ==
    \A t \in Threads :
        (pc[t] \in {"ret", "idle"} /\ op[t] = "send" /\ res[t] # OkUnit) =>
            /\ res[t] = Full(Msg(t, seq[t] + 1))
            /\ Chan = pre

\* A send returned Full on a channel that has a cursor set.
FullSendChangesNothingSeen ==
    /\ pc[1] = "idle"
    /\ op[1] = "send"
    /\ res[1] = Full(Msg(1, seq[1] + 1))
    /\ cursor # NIL_NODE
    /\ capacity >= 2

\* C7: a receive that returns Empty leaves the pointers, every next link, every
\* cell and the counters as they were.
EmptyReceiveChangesNothing ==
    \A t \in Threads :
        (pc[t] \in {"ret", "idle"} /\ op[t] = "receive" /\ res[t] = Empty) =>
            Chan = pre

\* A receive returned Empty although messages are pending behind the cursor.
EmptyReceiveChangesNothingSeen ==
    /\ pc[1] = "idle"
    /\ op[1] = "receive"
    /\ res[1] = Empty
    /\ cursor # NIL_NODE
    /\ pending >= 2

\* C8: on a channel with no cursor holding x1..xn, after k successful skips
\* (1 <= k < n) and nothing else, the receives return x(k+1), .., xn in order
\* and then Empty, each of them takes one message off pending, and x1..xk stay
\* at the head of the queue, so that pending = k once xn has been received.
SkipThenReceive ==
    (pc[1] = "idle" /\ skipRun.on /\ skipRun.k < Len(skipRun.xs)) =>
        LET xs == skipRun.xs
            n == Len(xs)
            k == skipRun.k
            r == skipRun.r
        IN  /\ r >= 1 =>
                  skipRun.last = IF k + r <= n THEN Ok(xs[k + r]) ELSE Empty
            /\ pending = n - Min(r, n - k)
            /\ SubSeq(QueueSeq(Chan), 1, k) = SubSeq(xs, 1, k)
            /\ r >= n - k => pending = k

\* Three messages, two skips, the receive of the third and a receive that
\* returned Empty.
SkipThenReceiveSeen ==
    /\ pc[1] = "idle"
    /\ skipRun.on
    /\ Len(skipRun.xs) = 3
    /\ skipRun.k = 2
    /\ skipRun.r = 2
    /\ skipRun.last = Empty

\* C9: after the sends of x1..xn to an empty channel, k skips (0 <= k <= n)
\* and reset_skip, receivable = n and the receives return x1..xn in order.
SkipResetRoundTrip ==
    (pc[1] = "idle" /\ roundTrip.ph = "reset") =>
        LET xs == roundTrip.xs
            r == roundTrip.r
        IN  /\ r = 0 => receivable = Len(xs)
            /\ r >= 1 => roundTrip.last = Ok(xs[r])

\* Three messages, all three skipped, reset_skip, and all three received.
SkipResetRoundTripSeen ==
    /\ pc[1] = "idle"
    /\ roundTrip.ph = "reset"
    /\ Len(roundTrip.xs) = 3
    /\ roundTrip.k = 3
    /\ roundTrip.r = 3

\* C10: after reset_skip the receives return the messages still pending in the
\* order in which they were sent, whatever sends, skips and receives came
\* before, and the messages sent after reset_skip follow them.
ResetRestoresSendOrder ==
    (pc[1] = "idle" /\ drain.on /\ drain.r >= 1) =>
        drain.last = Ok(drain.xs[drain.r])

\* reset_skip came after a message was received from behind a skipped one and
\* another was sent; the skipped message and the later one were then received.
ResetRestoresSendOrderSeen ==
    /\ pc[1] = "idle"
    /\ drain.on
    /\ drain.r = Len(drain.xs)
    /\ drain.r >= 2
    /\ \E i \in 1..(Len(drain.xs) - 1) : drain.xs[i + 1][2] > drain.xs[i][2] + 1
    /\ \E i \in DOMAIN recvLog : \E j \in DOMAIN drain.xs : recvLog[i][2] > drain.xs[j][2] + 1

ResetWithoutCursorIsNoOp ==
    \A t \in Threads :
        (pc[t] \in {"ret", "idle"} /\ op[t] = "reset_skip") =>
            /\ res[t] = OkUnit
            /\ cursor = NIL_NODE
            /\ skipped = NIL_NODE
            /\ pre.cursor = NIL_NODE => Chan = pre

\* reset_skip was called with no cursor set on a channel that holds messages
\* and has had skips before.
ResetWithoutCursorIsNoOpSeen ==
    /\ pc[1] = "idle"
    /\ op[1] = "reset_skip"
    /\ pre.cursor = NIL_NODE
    /\ skip_used
    /\ pending >= 2

\* C13: peek changes nothing in the channel, and the receive that follows it
\* returns what peek returned: the same message, or Empty when peek returned
\* Empty.
PeekAgreesWithReceive ==
    pc[1] = "idle" =>
        /\ op[1] = "peek" => Chan = pre
        /\ peekRun.recv # NoRes => peekRun.recv = peekRun.peek

\* peek returned a message from behind the cursor and receive then returned it.
PeekAgreesWithReceiveSeen ==
    /\ pc[1] = "idle"
    /\ Len(peekRun.peek) = 2
    /\ peekRun.recv = peekRun.peek
    /\ pre.cursor # NIL_NODE

\* C14: between operations the read position has no successor exactly when
\* receivable = 0, and receive returns Empty exactly when it was called with
\* receivable = 0, whatever pending is.
EmptyIffNothingReceivable ==
    \A t \in Threads :
        pc[t] \in {"ret", "idle"} =>
            /\ (next[ReadPtr] = NIL_NODE) <=> (receivable = 0)
            /\ op[t] = "receive" =>
                 /\ (res[t] = Empty) <=> (pre.receivable = 0)
                 /\ res[t] # Empty => (Len(res[t]) = 2 /\ res[t][1] = "Ok")

\* receive returned Empty while two messages were pending behind the cursor.
EmptyIffNothingReceivableSeen ==
    /\ pc[1] = "idle"
    /\ op[1] = "receive"
    /\ res[1] = Empty
    /\ pending >= 2
    /\ cursor # NIL_NODE
    /\ next[cursor] = NIL_NODE

\* C15: whenever no call is in progress, whatever the threads have done,
\* pending = sent - received and receivable <= pending.
CountersAgree ==
    Quiet =>
        /\ pending = sent - received
        /\ receivable <= pending

\* Both senders have sent, the receiver has received one message and skipped
\* another, and no call is in progress.
CountersAgreeSeen ==
    /\ Quiet
    /\ \A s \in Senders : seq[s] >= 1
    /\ received >= 1
    /\ cursor # NIL_NODE
    /\ receivable < pending

\* C16: receive_await called on an empty channel, with one send by the other
\* thread, eventually returns that message, and the counters end as sent = 1,
\* received = 1, pending = 0, receivable = 0.
RecvAwaitGetsTheMessage ==
    <>(/\ pc[1] = "done"
       /\ res[1] = Ok(Msg(2, 1))
       /\ sent = 1
       /\ received = 1
       /\ pending = 0
       /\ receivable = 0)

\* C17: send_await called on a full channel, with one receive by the other
\* thread, eventually returns Ok with its message in the channel.
SendAwaitPutsTheMessage ==
    <>(/\ pc[1] = "done"
       /\ op[1] = "send_await"
       /\ res[1] = OkUnit
       /\ Msg(1, capacity + 1) \in Range(QueueSeq(Chan)))

\* C18: send_await_timeout with a finite timeout, called on a full channel
\* that nobody receives from or resets, terminates and returns Full, whatever
\* the position of the cursor.
SendAwaitTimeoutReturnsFull ==
    (op[1] = "send_await_timeout") ~>
        (pc[1] = "done" /\ res[1] = Full(Msg(1, seq[1] + 1)))

\* C19: receive_await_timeout with a finite timeout, called when receivable
\* is 0 on a channel that nobody sends to or resets, terminates and returns
\* Empty, also when messages are pending behind the cursor and the channel is
\* full.
ReceiveAwaitTimeoutReturnsEmpty ==
    (op[1] = "receive_await_timeout") ~> (pc[1] = "done" /\ res[1] = Empty)

\* The blocking call of thread 1 has ended by timeout.
SendTimedOut == pc[1] = "done" /\ op[1] = "send_await_timeout" /\ res[1][1] = "Full"
ReceiveTimedOut == pc[1] = "done" /\ op[1] = "receive_await_timeout" /\ res[1] = Empty

\* A channel value without its two counts of waits.
WithoutWaits(c) == [c EXCEPT !.awaited_messages = 0, !.awaited_capacity = 0]

\* C20 as stated: a blocking call that ends by timeout leaves the lists, the
\* cursor, skipped and every counter, awaited_capacity and awaited_messages
\* included, as they were before the call, and Full carries the caller's
\* message.
TimeoutLeavesNothing ==
    /\ SendTimedOut => Chan = pre /\ res[1] = Full(Msg(1, seq[1] + 1))
    /\ ReceiveTimedOut => Chan = pre

\* C20, amended: a blocking call that ends by timeout leaves the lists, the
\* cursor, skipped, pending, receivable, sent and received as they were before
\* the call, holds no mutex, and Full carries the caller's message; the count
\* of waits of the calling side has not decreased (a wait of the call that was
\* ended by a wakeup before the last one timed out is counted) and the count
\* of the other side is unchanged.
TimeoutLeavesOnlyWaitCounts ==
    /\ SendTimedOut =>
        /\ WithoutWaits(Chan) = WithoutWaits(pre)
        /\ res[1] = Full(Msg(1, seq[1] + 1))
        /\ awaited_capacity >= pre.awaited_capacity
        /\ awaited_messages = pre.awaited_messages
        /\ send_mutex = 0 /\ receive_mutex = 0
    /\ ReceiveTimedOut =>
        /\ WithoutWaits(Chan) = WithoutWaits(pre)
        /\ awaited_messages >= pre.awaited_messages
        /\ awaited_capacity = pre.awaited_capacity
        /\ send_mutex = 0 /\ receive_mutex = 0

TimeoutLeavesOnlyWaitCountsSeen ==
    /\ SendTimedOut
    /\ awaited_capacity = pre.awaited_capacity + 1
    /\ cursor # NIL_NODE
    /\ pending = capacity

\* C21: when thread 1 is in receive_await with every pending message behind
\* the cursor and the other thread has called reset_skip, thread 1 eventually
\* returns the oldest pending message, with no further send.
ResetSkipWakesReceiver ==
    (op[2] = "reset_skip") ~> (pc[1] = "done" /\ res[1] = Ok(Msg(1, 1)))

\* Thread t is trying to acquire a mutex that another thread holds: at a
\* mutex.lock(), or notified inside Condvar::wait and taking the mutex back.
WantsSendMutex(t) ==
    \/ pc[t] \in {"send_lock", "ra_lock"}
    \/ pc[t] = "ra_wait" /\ t \in notified

WantsReceiveMutex(t) ==
    \/ pc[t] \in {"recv_lock", "peek_lock", "skip_lock", "reset_lock", "sa_lock"}
    \/ pc[t] = "sa_wait" /\ t \in notified

BlockedOnMutex(t) ==
    \/ WantsSendMutex(t) /\ send_mutex # 0
    \/ WantsReceiveMutex(t) /\ receive_mutex # 0

\* C22: no thread holds the mutex of send_ptrs and the mutex of receive_ptrs
\* at the same time, a thread that holds a mutex is not waiting for the other
\* one, and in no reachable state is every thread blocked trying to acquire a
\* mutex, whatever send, send_await, receive, receive_await, peek, skip and
\* reset_skip calls the threads make.
NoLockDeadlock ==
    /\ \A t \in Threads : ~(send_mutex = t /\ receive_mutex = t)
    /\ \A t \in Threads : (send_mutex = t \/ receive_mutex = t) => ~BlockedOnMutex(t)
    /\ \E t \in Threads : ~BlockedOnMutex(t)

NoLockDeadlockSeen ==
    /\ pc[3] = "ra_lock"
    /\ BlockedOnMutex(3)
    /\ op[1] = "send_await"
    /\ send_mutex = 1

\* C23: with several senders and no skip, the messages are received in the
\* order in which the successful sends went through the critical section of
\* the send mutex: what has been received is the beginning of what has been
\* queued, in the same order, in every interleaving with the receivers.
ReceiveOrderIsSendOrder ==
    /\ Len(recvLog) <= Len(sendLog)
    /\ \A i \in DOMAIN recvLog : recvLog[i] = sendLog[i]

ReceiveOrderIsSendOrderSeen ==
    /\ Len(recvLog) = 3
    /\ recvLog = sendLog
    /\ recvLog[1][1] = 2
    /\ recvLog[2][1] = 1
    /\ recvLog[3][1] = 2
    /\ \E i \in DOMAIN recvLog : res[3] = Ok(recvLog[i])
    /\ \E i \in DOMAIN recvLog : res[4] = Ok(recvLog[i])

\* C24: when send_await, after a send that returned Full, holds the mutex of
\* receive_ptrs and is about to wait on the condvar, the channel is still
\* full: it never starts to wait while a node is free.
SendAwaitWaitsOnlyWhenFull ==
    \A t \in Threads : pc[t] = "sa_block" => IsFull

\* C25: when receive_await, after a receive that returned Empty, holds the
\* mutex of send_ptrs and is about to wait on the condvar, there is still no
\* receivable message: it never starts to wait while one can be received.
ReceiveAwaitWaitsOnlyWhenEmpty ==
    \A t \in Threads : pc[t] = "ra_block" => (receivable = 0 /\ next[ReadPtr] = NIL_NODE)

\* The nodes reached from node n by following next, n first, up to the node
\* whose next is NIL_NODE; fuel bounds the walk should the links form a cycle.
RECURSIVE Chain(_, _)
Chain(n, fuel) ==
    IF n = NIL_NODE \/ fuel = 0 THEN <<>> ELSE <<n>> \o Chain(next[n], fuel - 1)

QueueChain == Chain(queue_head, Cardinality(Nodes) + 1)
PoolChain == Chain(pool_head, Cardinality(Nodes) + 1)

\* C26: under any interleaving, the unwrap of receive and the expect of peek
\* never fail: a thread that found a successor at its read position finds a
\* message in the cell it reads.  While no receiver is inside its critical
\* section, every node linked into the queue before the last one holds a
\* message and is counted in pending; no node linked into the pool holds one.
PublishLast ==
    /\ \A t \in Threads : res[t] # Panic /\ pc[t] # "panicked"
    /\ \A t \in Threads : pc[t] = "recv_take" => cell[TakeFrom(t)] # <<>>
    /\ \A t \in Threads : pc[t] = "peek_read" => cell[local[t].read_ptr] # <<>>
    /\ receive_mutex = 0 =>
        /\ \A i \in 1..(Len(QueueChain) - 1) : cell[QueueChain[i]] # <<>>
        /\ Len(QueueChain) - 1 <= pending
    /\ \A i \in DOMAIN PoolChain : cell[PoolChain[i]] = <<>>

PublishLastSeen ==
    /\ pc[3] = "recv_take"
    /\ pc[1] = "send_publish"
    /\ cell[TakeFrom(3)] # <<>>
    /\ pending = 2

\* C27: between operations the nodes reached from queue_head and the nodes
\* reached from pool_head are two chains that end in NIL_NODE, have no node
\* in common and together hold each of the capacity + 2 nodes exactly once;
\* the queue's chain ends at queue_tail and the pool's chain at pool_tail.
TwoChainsPartitionNodes ==
    Quiet =>
        /\ Cardinality(Nodes) = capacity + 2
        /\ Len(QueueChain) + Len(PoolChain) = capacity + 2
        /\ Range(QueueChain) \cap Range(PoolChain) = {}
        /\ Range(QueueChain) \cup Range(PoolChain) = Nodes
        /\ QueueChain[Len(QueueChain)] = queue_tail
        /\ PoolChain[Len(PoolChain)] = pool_tail
        /\ next[queue_tail] = NIL_NODE
        /\ next[pool_tail] = NIL_NODE

TwoChainsPartitionNodesSeen ==
    /\ Quiet
    /\ cursor # NIL_NODE
    /\ op[1] = "receive"
    /\ Len(recvLog) = 2
    /\ res[1] = Ok(recvLog[2])
    /\ recvLog[1][2] > 1
    /\ Len(QueueChain) = 3
    /\ Len(PoolChain) = capacity - 1

\* C28 as stated: between operations the cells of the nodes at queue_head and
\* at pool_head are empty, and the oldest pending message is in the node that
\* queue_head.next points to.
HeadsArePlaceholders ==
    Quiet =>
        /\ cell[queue_head] = <<>>
        /\ cell[pool_head] = <<>>
        /\ pending > 0 => cell[next[queue_head]] = <<Head(hidden \o visible)>>

\* C28, amended: between operations the cells of the nodes at queue_tail and
\* at pool_head are empty (the queue's placeholder is its tail), and the
\* oldest pending message is in the node at queue_head itself; the cell at
\* queue_head is empty exactly when nothing is pending.
TailIsPlaceholder ==
    Quiet =>
        /\ cell[queue_tail] = <<>>
        /\ cell[pool_head] = <<>>
        /\ pending = Len(hidden \o visible)
        /\ pending = 0 => cell[queue_head] = <<>> /\ queue_head = queue_tail
        /\ pending > 0 => cell[queue_head] = <<Head(hidden \o visible)>>

TailIsPlaceholderSeen ==
    /\ Quiet
    /\ pending = 3
    /\ cursor # NIL_NODE
    /\ received > 0
    /\ cell[queue_head] = <<Head(hidden \o visible)>>
    /\ cell[next[queue_head]] # <<>>

\* The place of node n on the queue's chain: 1 for queue_head.
PlaceInQueue(n) == CHOOSE i \in DOMAIN QueueChain : QueueChain[i] = n

\* C29 as stated: between operations, when a cursor is set, receivable is
\* pending minus the number of nodes strictly between queue_head and cursor on
\* the queue's chain.
ReceivableCountsBetween ==
    (Quiet /\ cursor # NIL_NODE) =>
        /\ cursor \in Range(QueueChain)
        /\ receivable = pending - (PlaceInQueue(cursor) - 2)

\* C29, amended: between operations, when a cursor is set, receivable is
\* pending minus the number of nodes from queue_head, included, up to the node
\* before cursor: the node at queue_head holds a message and is one of the
\* skipped ones.
ReceivableCountsFromHead ==
    (Quiet /\ cursor # NIL_NODE) =>
        /\ cursor \in Range(QueueChain)
        /\ receivable = pending - (PlaceInQueue(cursor) - 1)
        /\ PlaceInQueue(cursor) - 1 = Len(hidden)

ReceivableCountsFromHeadSeen ==
    /\ Quiet
    /\ cursor # NIL_NODE
    /\ PlaceInQueue(cursor) = 3
    /\ receivable = 1
    /\ pending = 3
    /\ received > 0

\* C30: cursor and skipped, the fields the mutex of receive_ptrs guards, are
\* consistent in every reachable state in which no thread is inside that
\* mutex, whatever the senders are doing: both are NIL_NODE or neither is,
\* and when they are set skipped.next = cursor and skipped lies on the queue's
\* chain, from queue_head on, just before cursor.
CursorConsistent ==
    receive_mutex = 0 =>
        /\ (cursor = NIL_NODE) <=> (skipped = NIL_NODE)
        /\ cursor # NIL_NODE =>
            /\ next[skipped] = cursor
            /\ skipped \in Range(QueueChain)
            /\ cursor \in Range(QueueChain)
            /\ PlaceInQueue(skipped) = PlaceInQueue(cursor) - 1

CursorConsistentSeen ==
    /\ receive_mutex = 0
    /\ cursor # NIL_NODE
    /\ received > 0
    /\ \E t \in Senders : pc[t] = "send_publish" /\ local[t].tail_ptr = cursor

\* C31: the awaited counters count every wait, also one that ends by timeout.
\* A blocking call returns by timeout only from inside a wait, so when it has
\* returned that way the counter of its side is larger than before the call.
TimedOutWaitIsCounted ==
    /\ SendTimedOut => awaited_capacity > pre.awaited_capacity
    /\ ReceiveTimedOut => awaited_messages > pre.awaited_messages

\* The statements of skip, by the position of the thread that runs them.
SkipPositions == {"skip_lock", "skip_load", "skip_empty", "skip_advance", "skip_unlock"}

\* C32: a successful skip changes only the receiver's cursor state. Every step
\* of a thread inside skip leaves pending, sent, received, queue_head, pool_tail,
\* the send-side pointers, every next link, every payload, the awaited counters
\* and the set of notified waiters as they were; the one step that moves the
\* cursor takes exactly one from receivable, makes skipped the previous read
\* position and cursor the node after it; the other steps leave these three alone.
SkipChangesOnlyCursorState ==
    [][\A t \in Threads :
          (pc[t] \in SkipPositions /\ pc'[t] # pc[t]) =>
              /\ UNCHANGED <<capacity, next, cell, queue_tail, pool_head, queue_head, pool_tail,
                             pending, sent, received, awaited_messages, awaited_capacity,
                             notified, send_mutex>>
              /\ IF pc[t] = "skip_advance"
                 THEN /\ receivable' = receivable - 1
                      /\ skipped' = ReadPtr
                      /\ cursor' = next[ReadPtr]
                      /\ cursor' # NIL_NODE
                 ELSE UNCHANGED <<receivable, skipped, cursor>>]_vars

\* A skip has moved the cursor while a sender waits on the receive condvar
\* without having been notified.
SkipChangesOnlyCursorStateSeen ==
    \E t \in Threads :
        /\ pc[t] = "skip_unlock"
        /\ cursor # NIL_NODE
        /\ \E w \in Threads : pc[w] = "sa_wait" /\ w \notin notified

\* The nodes linked from n on in the channel value c, in order.
RECURSIVE ChainOf(_, _, _)
ChainOf(c, n, fuel) ==
    IF n = NIL_NODE \/ fuel = 0 THEN <<>> ELSE <<n>> \o ChainOf(c, c.next[n], fuel - 1)

\* The part of a chain up to and including node n.
UpTo(ch, n) == SubSeq(ch, 1, CHOOSE i \in DOMAIN ch : ch[i] = n)

\* A receive that was called with the cursor set has returned a message.
CursorReceiveDone ==
    /\ pc[1] = "ret"
    /\ op[1] = "receive"
    /\ pre.cursor # NIL_NODE
    /\ res[1] # Empty

\* C33: a receive made while the cursor is set takes exactly the cursor's node
\* out of the middle of the queue and appends it to the pool's tail.  queue_head,
\* skipped and the send-side pointers keep their values; the chain of nodes from
\* queue_head to skipped and their payloads are as before; cursor moves to the
\* node after the removed one and pool_tail to the removed node; the only links
\* that change are skipped.next, the removed node's next and the old pool
\* tail's next; the only cell that changes is the removed node's.
CursorReceiveExcisesOne ==
    CursorReceiveDone =>
        LET removed == pre.cursor
            after == pre.next[pre.cursor]
            before == ChainOf(pre, pre.queue_head, Cardinality(Nodes) + 1)
        IN  /\ res[1] = Ok(pre.cell[removed][1])
            /\ queue_head = pre.queue_head
            /\ skipped = pre.skipped
            /\ queue_tail = pre.queue_tail
            /\ pool_head = pre.pool_head
            /\ cursor = after
            /\ pool_tail = removed
            /\ next[skipped] = after
            /\ next[removed] = NIL_NODE
            /\ next[pre.pool_tail] = removed
            /\ \A n \in Nodes \ {skipped, removed, pre.pool_tail} : next[n] = pre.next[n]
            /\ cell[removed] = <<>>
            /\ \A n \in Nodes \ {removed} : cell[n] = pre.cell[n]
            /\ skipped \in Range(before)
            /\ UpTo(QueueChain, skipped) = UpTo(before, skipped)
            /\ Len(QueueChain) = Len(before) - 1
            /\ removed \notin Range(QueueChain)
            /\ PoolChain = ChainOf(pre, pre.pool_head, Cardinality(Nodes) + 1) \o <<removed>>

\* A cursor receive has taken a node from behind two skipped ones: the chain
\* from queue_head to skipped has more than one node.
CursorReceiveExcisesOneSeen ==
    /\ CursorReceiveDone
    /\ skipped # queue_head
    /\ pending > 0

----------------------------------------------------------------------------
\* create, statement by statement.  The locals queue_head, queue_tail,
\* pool_head and pool_tail are kept in the variables of the fields they are
\* moved into; nodes.len() is the number of nodes pushed so far.

MaxCreateCapacity == 10

\* capacity: u16
U16_MAX == 65535

\* The capacities create is called with: 0, the small ones whose pushes are
\* followed, and the three largest a u16 holds.
CreateCapacities == (0..MaxCreateCapacity) \cup {U16_MAX - 2, U16_MAX - 1, U16_MAX}

NodesLen == Cardinality(DOMAIN next)

\* nodes.push(node); node_ptrs.push(..)
Pushed(f, v) == [n \in 0..NodesLen |-> IF n = NodesLen THEN v ELSE f[n]]

InitCreate ==
    /\ capacity \in CreateCapacities
    /\ next = <<>>
    /\ cell = <<>>
    /\ queue_head = NIL_NODE
    /\ queue_tail = NIL_NODE
    /\ pool_head = NIL_NODE
    /\ pool_tail = NIL_NODE
    /\ skipped = NIL_NODE
    /\ cursor = NIL_NODE
    /\ pending = 0
    /\ receivable = 0
    /\ sent = 0
    /\ received = 0
    /\ awaited_messages = 0
    /\ awaited_capacity = 0
    /\ send_mutex = 0
    /\ receive_mutex = 0
    /\ notified = {}
    /\ pc = [t \in SeqThreads |-> "create_check"]
    /\ op = [t \in SeqThreads |-> "create"]
    /\ message = [t \in SeqThreads |-> <<>>]
    /\ local = [t \in SeqThreads |-> NoLocal]
    /\ res = [t \in SeqThreads |-> NoRes]
    /\ seq = [t \in SeqThreads |-> 0]
    /\ InitGhost

\* if capacity < 1 { panic!(..) }
CreateCheck(t) ==
    /\ pc[t] = "create_check"
    /\ IF capacity < 1
       THEN PanicAt(t)
       ELSE Goto(t, "create_alloc") /\ UNCHANGED res
    /\ UNCHANGED <<capacity, awaitVars, chanVars, lockVars, op, message, local, seq, ghostVars>>

\* let alloc_capacity = (capacity + 2) as usize: the sum is taken in u16.  When
\* it does not fit, a build with overflow checks panics and a build without
\* them wraps around.
CreateAlloc(t) ==
    /\ pc[t] = "create_alloc"
    /\ \/ /\ capacity + 2 <= U16_MAX
          /\ local' = [local EXCEPT ![t].alloc_capacity = capacity + 2]
          /\ Goto(t, "create_queue")
          /\ UNCHANGED res
       \/ /\ capacity + 2 > U16_MAX
          /\ PanicAt(t)
          /\ UNCHANGED local
       \/ /\ capacity + 2 > U16_MAX
          /\ local' = [local EXCEPT ![t].alloc_capacity = (capacity + 2) % (U16_MAX + 1)]
          /\ Goto(t, "create_queue")
          /\ UNCHANGED res
    /\ UNCHANGED <<capacity, awaitVars, chanVars, lockVars, op, message, seq, ghostVars>>

\* nodes.push(SeccNode::new()); queue_head = nodes.len() - 1; queue_tail = queue_head.
\* The pushes are followed for the capacities up to MaxCreateCapacity.
CreateQueue(t) ==
    /\ pc[t] = "create_queue"
    /\ capacity <= MaxCreateCapacity
    /\ next' = Pushed(next, NIL_NODE)
    /\ cell' = Pushed(cell, <<>>)
    /\ queue_head' = NodesLen
    /\ queue_tail' = NodesLen
    /\ Goto(t, "create_pool_tail")
    /\ UNCHANGED <<capacity, awaitVars, pool_head, pool_tail, skipped, cursor, stats, lockVars,
                   op, message, local, res, seq, ghostVars>>

\* nodes.push(SeccNode::new()); pool_head = nodes.len() - 1; pool_tail = pool_head
CreatePoolTail(t) ==
    /\ pc[t] = "create_pool_tail"
    /\ next' = Pushed(next, NIL_NODE)
    /\ cell' = Pushed(cell, <<>>)
    /\ pool_head' = NodesLen
    /\ pool_tail' = NodesLen
    /\ Goto(t, "create_push")
    /\ UNCHANGED <<capacity, awaitVars, queue_head, queue_tail, skipped, cursor, stats, lockVars,
                   op, message, local, res, seq, ghostVars>>

\* A faulty create: every node of the pool points at the pool's tail.
CreatePushToTail(t) ==
    /\ pc[t] = "create_push"
    /\ IF NodesLen - 2 < PoolNodes(capacity)
       THEN /\ next' = Pushed(next, pool_tail)
            /\ cell' = Pushed(cell, <<>>)
            /\ pool_head' = NodesLen
            /\ UNCHANGED pc
       ELSE /\ Goto(t, "create_core")
            /\ UNCHANGED <<next, cell, pool_head>>
    /\ UNCHANGED <<capacity, awaitVars, queue_head, queue_tail, pool_tail, skipped, cursor, stats,
                   lockVars, op, message, local, res, seq, ghostVars>>

\* for _ in 0..capacity { nodes.push(SeccNode::with_next(pool_head));
\*                        pool_head = nodes.len() - 1; }
CreatePush(t) ==
    /\ pc[t] = "create_push"
    /\ IF NodesLen - 2 < PoolNodes(capacity)
       THEN /\ next' = Pushed(next, pool_head)
            /\ cell' = Pushed(cell, <<>>)
            /\ pool_head' = NodesLen
            /\ UNCHANGED pc
       ELSE /\ Goto(t, "create_core")
            /\ UNCHANGED <<next, cell, pool_head>>
    /\ UNCHANGED <<capacity, awaitVars, queue_head, queue_tail, pool_tail, skipped, cursor, stats,
                   lockVars, op, message, local, res, seq, ghostVars>>

\* SeccSendPtrs { .. }, SeccReceivePtrs { .., skipped: NIL_NODE, cursor: NIL_NODE },
\* SeccCore { .. } with every counter 0 and both mutexes free; the sender and
\* the receiver are returned.
CreateCore(t) ==
    /\ pc[t] = "create_core"
    /\ skipped' = NIL_NODE
    /\ cursor' = NIL_NODE
    /\ awaited_messages' = 0
    /\ awaited_capacity' = 0
    /\ pending' = 0
    /\ receivable' = 0
    /\ sent' = 0
    /\ received' = 0
    /\ send_mutex' = 0
    /\ receive_mutex' = 0
    /\ local' = [local EXCEPT ![t] = NoLocal]
    /\ Goto(t, "idle")
    /\ UNCHANGED <<capacity, notified, next, cell, sendPtrs, queue_head, pool_tail, op, message,
                   res, seq, ghostVars>>

NextCreate ==
    \E t \in SeqThreads :
        \/ CreateCheck(t) \/ CreateAlloc(t) \/ CreateQueue(t)
        \/ CreatePoolTail(t) \/ CreatePush(t) \/ CreateCore(t)

SpecCreate == InitCreate /\ [][NextCreate]_vars

\* create has returned the two sides of the channel.
Created == pc[1] = "idle" /\ op[1] = "create"

\* C34: create(capacity) builds a channel of capacity + 2 nodes: node 0 is both
\* ends of the queue and node 1 the pool's tail, both with next NIL; node k
\* points at node k - 1 for 2 <= k <= capacity + 1; pool_head is node
\* capacity + 1; cursor and skipped are NIL, every cell is empty and the four
\* counters are 0.  This is the channel every other specification starts from.
CreateLayout ==
    Created =>
        /\ capacity >= 1
        /\ Nodes = 0..(capacity + 1)
        /\ Cardinality(Nodes) = capacity + 2
        /\ queue_head = 0 /\ queue_tail = 0 /\ next[0] = NIL_NODE
        /\ pool_tail = 1 /\ next[1] = NIL_NODE
        /\ \A k \in 2..(capacity + 1) : next[k] = k - 1
        /\ pool_head = capacity + 1
        /\ cursor = NIL_NODE /\ skipped = NIL_NODE
        /\ \A n \in Nodes : cell[n] = <<>>
        /\ pending = 0 /\ receivable = 0 /\ sent = 0 /\ received = 0
        /\ InitChan(capacity)

\* create(5), the call of test_send_and_receive, has returned.
CreateLayoutSeen == Created /\ capacity = 5 /\ pool_head = 6 /\ next[6] = 5

\* C35: for every capacity from 1 to 65,534 create computes the node count
\* capacity + 2 in the u16 of capacity without overflow, and every node index
\* is below NIL_NODE.
CreateSizeFitsU16 ==
    (capacity \in 1..(U16_MAX - 1) /\ pc[1] \notin {"create_check", "create_alloc"}) =>
        /\ pc[1] # "panicked"
        /\ pc[1] # "idle" => local[1].alloc_capacity = capacity + 2
        /\ capacity + 1 < NIL_NODE
        /\ \A n \in Nodes : n < NIL_NODE

\* The senders that are between taking a node from the pool and linking it
\* to the queue's tail.
Appending ==
    {t \in Threads : pc[t] \in {"send_cell", "send_sent", "send_receivable", "send_pending",
                                "send_clear", "send_publish"}}

\* C36: whenever reset_skip runs with a cursor set, its walk from
\* queue_head.next along the next links reaches cursor after finitely many
\* steps and never reads NIL.  At every point of the walk the node it stands on
\* is a node of the channel, cursor lies ahead of it on the chain, and the
\* steps taken plus the steps left number at most capacity; reset_skip never
\* panics.
ResetWalkReachesCursor ==
    \A t \in Threads :
        /\ op[t] = "reset_skip" => pc[t] # "panicked"
        /\ pc[t] = "reset_walk" =>
               LET ahead == Chain(local[t].next_pos, Cardinality(Nodes) + 1)
               IN  /\ local[t].next_pos \in Nodes
                   /\ cursor \in Range(ahead)
                   /\ local[t].count + Len(UpTo(ahead, cursor)) - 1 <= capacity

\* reset_skip is in its walk after a cursor receive has rewritten skipped.next
\* (a message was received and the queue's head never moved) while a sender is
\* appending to the queue.
ResetWalkReachesCursorSeen ==
    \E t \in Threads :
        /\ pc[t] = "reset_walk"
        /\ received > 0
        /\ queue_head = 0
        /\ next[queue_head] = cursor
        /\ Appending # {}

\* C37: at every instant, also in the middle of concurrently running
\* operations, pending and receivable are at most capacity, and a counter that
\* is about to be decremented (receivable in skip and in receive, pending in
\* receive) is not 0, so no counter wraps around.
CountersWithinCapacity ==
    /\ pending <= capacity
    /\ receivable <= capacity
    /\ \A t \in Threads :
           /\ pc[t] \in {"skip_advance", "recv_receivable"} => receivable > 0
           /\ pc[t] = "recv_pending" => pending > 0

\* The channel is full and a receiver is about to take one from pending while
\* a sender is inside send.
CountersWithinCapacitySeen ==
    /\ pending = capacity
    /\ \E t \in Threads : pc[t] = "recv_pending"
    /\ \E t \in Threads : op[t] = "send" /\ pc[t] \in {"send_lock", "send_load", "send_full"}

====
